---- MODULE Spec2Model ----
(***************************************************************************)
(* brickwave: the signal synthesis and mixing engine.                      *)
(*                                                                         *)
(* The program is a library of synchronous functions over sample buffers   *)
(* (generateNoise, the three ambient layer generators, mixAmbientLayers,   *)
(* applyEnvelope, convertToStereo, float32ToPCM, writeWav).  A behaviour   *)
(* of the model is a request (a function and its arguments) followed by    *)
(* invocations of that function; each invocation records its outcome.      *)
(*                                                                         *)
(* Numbers.  A sample is held as an integer count of 1/Scale (the grid on  *)
(* which the model stores every value written to a Float32Array).          *)
(* Products and quotients are rounded to that grid.  The PRNG        *)
(* register is modelled bit for bit, including the IEEE-754 double         *)
(* rounding of the product seed * 1103515245, which exceeds 2^53.          *)
(***************************************************************************)
EXTENDS Integers, Sequences, FiniteSets, TLC

VARIABLES
    req,    \* the call under consideration: the function and its arguments
    res,    \* outcomes of the invocations of req made so far, oldest first
    fs,     \* the file system: path -> file
    heap,   \* the buffers the caller holds: reference -> content
    run,    \* the layer calls in progress: their locals and their registers
    cli     \* the command-line program: where it is and its locals

vars == <<req, res, fs, heap, run, cli>>

(***************************************************************************)
(* Bounds of the model.                                                    *)
(***************************************************************************)
\* How many times the same request is invoked (two independent invocations).
MaxCalls == 2

\* Resolution of a sample: one unit is 1/Scale.
Scale == 10^3

\* An optional argument is a sequence of at most one value; None is undefined.
None == <<>>

Some(v) == <<v>>

(***************************************************************************)
(* Arithmetic on the grid.                                                 *)
(***************************************************************************)
Abs(x) == IF x < 0 THEN -x ELSE x

Sgn(x) == IF x < 0 THEN -1 ELSE IF x > 0 THEN 1 ELSE 0

Min(a, b) == IF a < b THEN a ELSE b

Max(a, b) == IF a > b THEN a ELSE b

\* n / d rounded to the nearest integer, halves away from zero (d > 0).
RoundDiv(n, d) == Sgn(n) * ((2 * Abs(n) + d) \div (2 * d))

\* n / d truncated toward zero (d > 0): ToInt32 of a double.
TruncDiv(n, d) == Sgn(n) * (Abs(n) \div d)

\* x * c where c is a coefficient written in units of 10^-7, rounded to the
\* grid.  The product is formed in three decimal limbs of c so that no
\* intermediate value leaves 32 bits.
MulCoef(x, c) ==
    LET ax == Abs(x)
        ac == Abs(c)
        c2 == ac \div 10^6
        c1 == (ac \div 10^3) % 10^3
        c0 == ac % 10^3
        t  == ax * c2 * 10^3 + ax * c1 + (ax * c0) \div 10^3
    IN  Sgn(x) * Sgn(c) * RoundDiv(t, 10^4)

\* a * b for two grid values (both in units of 1/Scale).
Mul(a, b) == RoundDiv(a * b, Scale)

\* Math.max(-1, Math.min(1, x))
Clamp(x) == Max(-Scale, Min(Scale, x))

(***************************************************************************)
(* SeededRandom.                                                           *)
(***************************************************************************)
RECURSIVE BitLen(_)
BitLen(n) == IF n = 0 THEN 0 ELSE 1 + BitLen(n \div 2)

\* A non-negative integer below 2^62 held as H * 2^32 + L1 * 2^16 + L0.
Norm(H, L1, L0) ==
    LET m == L1 + L0 \div 65536
    IN  [H |-> H + m \div 65536, L1 |-> m % 65536, L0 |-> L0 % 65536]

\* The nearest IEEE-754 double (53 significant bits, ties to even).
RoundDouble(n) ==
    LET k    == Max(0, BitLen(n.H) - 21)
        q    == n.L0 \div 2^k
        r    == n.L0 % 2^k
        half == IF k = 0 THEN 0 ELSE 2^(k - 1)
        up   == k > 0 /\ (r > half \/ (r = half /\ q % 2 = 1))
    IN  Norm(n.H, n.L1, (q + (IF up THEN 1 ELSE 0)) * 2^k)

\* The update computed in exact integer arithmetic:
\* (seed * 1103515245 + 12345) mod 2^31.
NextSeedExact(seed) ==
    LET s0 == seed % 65536
        s1 == seed \div 65536
        p  == Norm(s1 * 16838, s0 * 16838 + s1 * 20077, s0 * 20077)
        a  == Norm(p.H, p.L1, p.L0 + 12345)
    IN  (a.L1 % 32768) * 65536 + a.L0

\* this.seed = (this.seed * 1103515245 + 12345) & 0x7fffffff, for a register
\* in 0 .. 2^31 - 1.  1103515245 = 16838 * 2^16 + 20077.  Both the product
\* and the sum are doubles: each is rounded to 53 bits before ToInt32 keeps
\* the low 32 bits and the mask the low 31.
NextSeed(seed) ==
    LET s0 == seed % 65536
        s1 == seed \div 65536
        p  == RoundDouble(Norm(s1 * 16838, s0 * 16838 + s1 * 20077, s0 * 20077))
        a  == RoundDouble(Norm(p.H, p.L1, p.L0 + 12345))
    IN  (a.L1 % 32768) * 65536 + a.L0

\* 0x7fffffff
RandMax == 2147483647

\* return this.seed / 0x7fffffff: the quotient on the grid, rounded down, so
\* that it is Scale exactly when the register is 0x7fffffff.
RandomValue(seed) ==
    LET s0 == seed % 65536
        s1 == seed \div 65536
        A  == s1 * Scale
        B  == s0 * Scale
        T  == (A % 32768) * 65536
        c  == B > RandMax - T
        h  == A \div 32768 + (IF c THEN 1 ELSE 0)
        l  == IF c THEN B - (RandMax - T) - 1 ELSE T + B
    IN  IF l >= RandMax - h THEN h + 1 ELSE h

\* A generator that ignores the seed it is given and always seeds itself
\* from Math.random().
NewSeededRandomUnseeded(seed, entropy) == entropy

\* new SeededRandom(seed): seed ?? Math.floor(Math.random() * 0x7fffffff)
NewSeededRandom(seed, entropy) == IF seed = None THEN entropy ELSE seed[1]

\* A generator whose register is offset by the number of samples still to be
\* produced before each draw, so that the value at an index depends on the
\* length of the buffer.
RECURSIVE DrawsByLength(_, _)
DrawsByLength(s, n) ==
    IF n = 0 THEN <<>>
    ELSE <<NextSeed((s + n) % RandMax)>>
            \o DrawsByLength(NextSeed((s + n) % RandMax), n - 1)

\* The registers after 1, 2, ..., n draws from a generator whose register is s.
RECURSIVE Draws(_, _)
Draws(s, n) == IF n = 0 THEN <<>> ELSE <<NextSeed(s)>> \o Draws(NextSeed(s), n - 1)

\* rng.random(): the value returned, given the register after the draw.
Random(reg) == RandomValue(reg)

(***************************************************************************)
(* Outcomes of a call.                                                     *)
(***************************************************************************)
Ok(v) == [status |-> "ok", value |-> v, error |-> ""]

\* A call that throws returns nothing: value is empty and status says so.
Throw(e) == [status |-> "throw", value |-> <<>>, error |-> e]

\* Math.ceil(duration * sampleRate) in place of Math.floor.
NoiseLengthCeil(duration, sampleRate) ==
    -((-(duration[1] * sampleRate)) \div duration[2])

(***************************************************************************)
(* generateNoise.                                                          *)
(***************************************************************************)
\* Math.floor(duration * sampleRate), the duration being the fraction d[1]/d[2].
NoiseLength(duration, sampleRate) == (duration[1] * sampleRate) \div duration[2]

\* rng.random() * 2 - 1
White(reg) == Random(reg) * 2 - Scale

\* The white branch: one draw per sample.
WhiteNoise(regs) == [i \in 1..Len(regs) |-> White(regs[i])]

\* An integrator without the leak and without the clamp: lastOut + 0.02 * white.
BrownStepUnleaky(lastOut, white) == lastOut + MulCoef(white, 200000)

\* lastOut after one more sample of the brown branch:
\* Math.max(-1, Math.min(1, (lastOut + (0.02 * white)) * 0.98))
BrownStep(lastOut, white) ==
    Clamp(MulCoef(lastOut + MulCoef(white, 200000), 9800000))

RECURSIVE BrownNoise(_, _)
BrownNoise(regs, lastOut) ==
    IF regs = <<>> THEN <<>>
    ELSE LET out == BrownStep(lastOut, White(Head(regs)))
         IN  <<out>> \o BrownNoise(Tail(regs), out)

\* b0 .. b6 before the first sample of the pink branch.
PinkInit == [b0 |-> 0, b1 |-> 0, b2 |-> 0, b3 |-> 0, b4 |-> 0, b5 |-> 0, b6 |-> 0]

\* An iteration whose sum has the seven terms b0 .. b6 only, without the
\* direct term white * 0.5362.
PinkStepSevenTerms(b, white) ==
    LET b0 == MulCoef(b.b0, 9988600) + MulCoef(white, 555179)
        b1 == MulCoef(b.b1, 9933200) + MulCoef(white, 750759)
        b2 == MulCoef(b.b2, 9690000) + MulCoef(white, 1538520)
        b3 == MulCoef(b.b3, 8665000) + MulCoef(white, 3104856)
        b4 == MulCoef(b.b4, 5500000) + MulCoef(white, 5329522)
        b5 == MulCoef(b.b5, -7616000) - MulCoef(white, 168980)
    IN  [b |-> [b0 |-> b0, b1 |-> b1, b2 |-> b2, b3 |-> b3, b4 |-> b4, b5 |-> b5,
                b6 |-> MulCoef(white, 1159260)],
         pink |-> b0 + b1 + b2 + b3 + b4 + b5 + b.b6]

\* One iteration of the pink branch: the filter states after it, and pink.
PinkStep(b, white) ==
    LET b0 == MulCoef(b.b0, 9988600) + MulCoef(white, 555179)
        b1 == MulCoef(b.b1, 9933200) + MulCoef(white, 750759)
        b2 == MulCoef(b.b2, 9690000) + MulCoef(white, 1538520)
        b3 == MulCoef(b.b3, 8665000) + MulCoef(white, 3104856)
        b4 == MulCoef(b.b4, 5500000) + MulCoef(white, 5329522)
        b5 == MulCoef(b.b5, -7616000) - MulCoef(white, 168980)
    IN  [b |-> [b0 |-> b0, b1 |-> b1, b2 |-> b2, b3 |-> b3, b4 |-> b4, b5 |-> b5,
                b6 |-> MulCoef(white, 1159260)],
         pink |-> b0 + b1 + b2 + b3 + b4 + b5 + b.b6 + MulCoef(white, 5362000)]

RECURSIVE PinkNoise(_, _)
PinkNoise(regs, b) ==
    IF regs = <<>> THEN <<>>
    ELSE LET st == PinkStep(b, White(Head(regs)))
         IN  <<MulCoef(st.pink, 1100000)>> \o PinkNoise(Tail(regs), st.b)

generateNoise(type, duration, sampleRate, seed, entropy) ==
    LET length == NoiseLength(duration, sampleRate)
        rng    == NewSeededRandom(seed, entropy)
    IN  IF length < 0 THEN Throw("RangeError: Invalid typed array length")
        ELSE IF type = "white" THEN Ok(WhiteNoise(Draws(rng, length)))
        ELSE IF type = "brown" THEN Ok(BrownNoise(Draws(rng, length), 0))
        ELSE IF type = "pink" THEN Ok(PinkNoise(Draws(rng, length), PinkInit))
        ELSE Throw("Unknown noise type: " \o type)

(***************************************************************************)
(* Math.sin, Math.exp and Math.tanh on the grid.                           *)
(***************************************************************************)
\* Math.sin(2 * Math.PI * num / den), num >= 0, den > 0: the phase is reduced
\* to thousandths of a turn and the half wave taken from Bhaskara's rational
\* approximation 16u(1-u) / (5 - 4u(1-u)), u the fraction of the half turn.
SinTurns(num, den) ==
    LET m == RoundDiv((num % den) * 1000, den) % 1000
        a == m % 500
        w == RoundDiv(16 * a * (500 - a) * Scale, 1250000 - 4 * a * (500 - a))
    IN  IF m < 500 THEN w ELSE -w

\* Math.exp(-num / den), num >= 0, den > 0 and num / den below 2: the Pade
\* approximant (12 - 6x + x^2) / (12 + 6x + x^2).
ExpNeg(num, den) ==
    RoundDiv((12 * den * den - 6 * num * den + num * num) * Scale,
             12 * den * den + 6 * num * den + num * num)

(***************************************************************************)
(* The ambient layers.  A buffer index i of the code is i + 1 here.  The   *)
(* options are o = [intensity, variation, seed], on the grid.              *)
(***************************************************************************)
\* new Float32Array(n)
Zeros(n) == [i \in 1..n |-> 0]

\* buffer[k] += v
AddAt(buffer, k, v) == [buffer EXCEPT ![k + 1] = @ + v]

\* intensity.toFixed(2), in hundredths
ToFixed2(x) == RoundDiv(x, 10)

LayerResult(name, buffer, text, intensity) ==
    [name |-> name, buffer |-> buffer, description |-> <<text, ToFixed2(intensity)>>]

\* ---- generateRainLayer ----
\* Math.floor(dropletDuration * sampleRate), dropletDuration = 0.01
DropletSamples(sampleRate) == sampleRate \div 100

\* (dropletRate / sampleRate) * (1 + noiseIntensity * options.variation)
RainChance(sample, sampleRate, o) ==
    Mul(RoundDiv(20 * Scale + 80 * o.intensity, sampleRate),
        Scale + Mul(Abs(sample), o.variation))

\* One sample of a droplet: the value added at i + j; noise is the draw made
\* for it.
DropletSample(j, sampleRate, frequency, dropletIntensity, noise, o) ==
    LET envelope    == Mul(ExpNeg(150 * j, sampleRate),
                           Scale - RoundDiv(100 * j * Scale, sampleRate))
        oscillation == SinTurns(frequency * j, Scale * sampleRate)
    IN  Mul(Mul(Mul(MulCoef(oscillation, 8000000) + MulCoef(noise, 2000000),
                    envelope), dropletIntensity), o.intensity)

\* The inner loop from j on: the buffer and the register when it ends.
RECURSIVE RainDroplet(_, _, _, _, _, _, _, _)
RainDroplet(buffer, reg, i, j, sampleRate, frequency, dropletIntensity, o) ==
    IF j < DropletSamples(sampleRate) /\ i + j < Len(buffer)
    THEN LET r     == NextSeed(reg)
             noise == MulCoef(White(r), 2000000)
         IN  RainDroplet(AddAt(buffer, i + j,
                               DropletSample(j, sampleRate, frequency,
                                             dropletIntensity, noise, o)),
                         r, i, j + 1, sampleRate, frequency, dropletIntensity, o)
    ELSE [buffer |-> buffer, reg |-> reg]

\* One iteration of the outer loop, at index i: the buffer, the register
\* and the index after it.
RainIter(buffer, reg, i, baseNoise, sampleRate, o) ==
    LET r1 == NextSeed(reg)
    IN  IF Random(r1) < RainChance(baseNoise[i + 1], sampleRate, o)
        THEN LET r2 == NextSeed(r1)
                 r3 == NextSeed(r2)
                 dropletIntensity == 100 + MulCoef(Random(r2), 4000000)
                 frequency == 2000 * Scale + 3000 * Random(r3)
                 d == RainDroplet(buffer, r3, i, 0, sampleRate, frequency,
                                  dropletIntensity, o)
             IN  [buffer |-> d.buffer, reg |-> d.reg, i |-> i + 1]
        ELSE [buffer |-> buffer, reg |-> r1, i |-> i + 1]

\* The outer loop from the state s = [buffer, reg, i] on.
RECURSIVE RainLoop(_, _, _, _)
RainLoop(s, baseNoise, sampleRate, o) ==
    IF s.i >= Len(s.buffer) THEN s.buffer
    ELSE RainLoop(RainIter(s.buffer, s.reg, s.i, baseNoise, sampleRate, o),
                  baseNoise, sampleRate, o)

generateRainLayer(baseNoise, sampleRate, o, entropy) ==
    LayerResult("pacific_rain",
                RainLoop([buffer |-> Zeros(Len(baseNoise)),
                          reg |-> NewSeededRandom(o.seed, entropy), i |-> 0],
                         baseNoise, sampleRate, o),
                "Pacific Northwest rain (intensity: ", o.intensity)

\* ---- generateBirdLayer ----
\* (callRate / sampleRate) * (1 + noiseLevel * options.variation * 2)
CallChance(sample, sampleRate, o) ==
    Mul(RoundDiv(Scale \div 2 + 2 * o.intensity, sampleRate),
        Scale + 2 * Mul(Abs(sample), o.variation))

\* The archetype chosen by birdType; rnd is the draw made for its frequency.
\* frequency is in Hz on the grid, modulation in Hz, callLength in seconds on
\* the grid.
BirdCall(birdType, rnd) ==
    IF birdType < MulCoef(Scale, 3000000)
    THEN [frequency |-> 2000 * Scale + 1000 * rnd, modulation |-> 200,
          callLength |-> MulCoef(Scale, 3000000)]
    ELSE IF birdType < MulCoef(Scale, 6000000)
    THEN [frequency |-> 400 * Scale + 300 * rnd, modulation |-> 50,
          callLength |-> MulCoef(Scale, 1500000)]
    ELSE [frequency |-> 1500 * Scale + 2000 * rnd, modulation |-> 400,
          callLength |-> MulCoef(Scale, 1000000)]

\* Math.floor(callLength * sampleRate)
CallSamples(call, sampleRate) == (call.callLength * sampleRate) \div Scale

\* signal * envelope * 0.3 * options.intensity at sample j of a call
CallSample(j, sampleRate, call, o) ==
    LET envelope == SinTurns(j * Scale, 2 * sampleRate * call.callLength)
        freq     == call.frequency + SinTurns(3 * j, sampleRate) * call.modulation
        signal   == SinTurns(freq * j, Scale * sampleRate)
    IN  Mul(MulCoef(Mul(signal, envelope), 3000000), o.intensity)

\* A call rendered into a buffer that grows with the writes past its end,
\* as a plain array does, without the test (i + j) < buffer.length.
RECURSIVE RenderCallGrowing(_, _, _, _, _, _)
RenderCallGrowing(buffer, i, j, sampleRate, call, o) ==
    IF j < CallSamples(call, sampleRate)
    THEN RenderCallGrowing(
             IF i + j < Len(buffer)
             THEN AddAt(buffer, i + j, CallSample(j, sampleRate, call, o))
             ELSE Append(buffer, CallSample(j, sampleRate, call, o)),
             i, j + 1, sampleRate, call, o)
    ELSE buffer

RECURSIVE RenderCall(_, _, _, _, _, _)
RenderCall(buffer, i, j, sampleRate, call, o) ==
    IF j < CallSamples(call, sampleRate) /\ i + j < Len(buffer)
    THEN RenderCall(AddAt(buffer, i + j, CallSample(j, sampleRate, call, o)),
                    i, j + 1, sampleRate, call, o)
    ELSE buffer

\* An iteration that does not skip ahead after a call: the index advances
\* by one whether or not a call was rendered.
BirdIterNoSkip(buffer, reg, i, starts, baseNoise, sampleRate, o) ==
    LET r1 == NextSeed(reg)
    IN  IF Random(r1) < CallChance(baseNoise[i + 1], sampleRate, o)
        THEN LET r2   == NextSeed(r1)
                 r3   == NextSeed(r2)
                 call == BirdCall(Random(r2), Random(r3))
             IN  [buffer |-> RenderCall(buffer, i, 0, sampleRate, call, o),
                  reg |-> r3,
                  i |-> i + 1,
                  starts |-> Append(starts, <<i, CallSamples(call, sampleRate)>>)]
        ELSE [buffer |-> buffer, reg |-> r1, i |-> i + 1, starts |-> starts]

\* One iteration of the outer loop, at index i; starts collects the indices
\* at which a call began.
BirdIter(buffer, reg, i, starts, baseNoise, sampleRate, o) ==
    LET r1 == NextSeed(reg)
    IN  IF Random(r1) < CallChance(baseNoise[i + 1], sampleRate, o)
        THEN LET r2   == NextSeed(r1)
                 r3   == NextSeed(r2)
                 call == BirdCall(Random(r2), Random(r3))
             IN  [buffer |-> RenderCall(buffer, i, 0, sampleRate, call, o),
                  reg |-> r3,
                  i |-> i + CallSamples(call, sampleRate) + 1,
                  starts |-> Append(starts, <<i, CallSamples(call, sampleRate)>>)]
        ELSE [buffer |-> buffer, reg |-> r1, i |-> i + 1, starts |-> starts]

\* The outer loop from the state s = [buffer, reg, i, starts] on.
RECURSIVE BirdLoop(_, _, _, _)
BirdLoop(s, baseNoise, sampleRate, o) ==
    IF s.i >= Len(s.buffer) THEN [buffer |-> s.buffer, starts |-> s.starts]
    ELSE BirdLoop(BirdIter(s.buffer, s.reg, s.i, s.starts, baseNoise, sampleRate, o),
                  baseNoise, sampleRate, o)

\* The loop of generateBirdLayer; the first draw is callDuration's.
BirdRun(baseNoise, sampleRate, o, entropy) ==
    BirdLoop([buffer |-> Zeros(Len(baseNoise)),
              reg |-> NextSeed(NewSeededRandom(o.seed, entropy)), i |-> 0,
              starts |-> <<>>],
             baseNoise, sampleRate, o)

generateBirdLayer(baseNoise, sampleRate, o, entropy) ==
    LayerResult("pacific_birds", BirdRun(baseNoise, sampleRate, o, entropy).buffer,
                "Pacific Northwest birds (intensity: ", o.intensity)

\* ---- generateWaterLayer ----
\* bubbleRate / sampleRate
BubbleChance(sampleRate, o) == RoundDiv(5 * Scale + 15 * o.intensity, sampleRate)

\* A flow that is not scaled by options.intensity.
FlowSampleUnscaled(filterState, sample, o) ==
    LET flowIntensity == MulCoef(Scale, 3000000)
                         + MulCoef(Mul(Abs(sample), o.variation), 5000000)
    IN  MulCoef(Mul(filterState, flowIntensity), 4000000)

\* A flow whose intensity takes the whole of noiseLevel * variation, without
\* the factor 0.5.
FlowSampleFullVariation(filterState, sample, o) ==
    LET flowIntensity == MulCoef(Scale, 3000000) + Mul(Abs(sample), o.variation)
    IN  MulCoef(Mul(Mul(filterState, flowIntensity), o.intensity), 4000000)

\* filterState * flowIntensity * options.intensity * 0.4
FlowSample(filterState, sample, o) ==
    LET flowIntensity == MulCoef(Scale, 3000000)
                         + MulCoef(Mul(Abs(sample), o.variation), 5000000)
    IN  MulCoef(Mul(Mul(filterState, flowIntensity), o.intensity), 4000000)

\* bubbleSound * bubbleEnv * 0.2 * options.intensity at sample j of a bubble
BubbleSample(j, sampleRate, bubbleFreq, o) ==
    Mul(MulCoef(Mul(SinTurns(bubbleFreq * j, Scale * sampleRate),
                    ExpNeg(10 * j, sampleRate)), 2000000), o.intensity)

RECURSIVE RenderBubble(_, _, _, _, _, _, _)
RenderBubble(buffer, i, j, bubbleSamples, sampleRate, bubbleFreq, o) ==
    IF j < bubbleSamples /\ i + j < Len(buffer)
    THEN RenderBubble(AddAt(buffer, i + j, BubbleSample(j, sampleRate, bubbleFreq, o)),
                      i, j + 1, bubbleSamples, sampleRate, bubbleFreq, o)
    ELSE buffer

\* One iteration of the loop, at index i; bubbles collects <<index,
\* bubbleSamples, bubbleFreq>> of the bubbles triggered.
WaterIter(buffer, reg, i, filterState, bubbles, baseNoise, sampleRate, o) ==
    LET r1   == NextSeed(reg)
        r2   == NextSeed(r1)
        fst  == MulCoef(filterState, 9500000) + MulCoef(White(r1), 500000)
        flow == [buffer EXCEPT ![i + 1] = FlowSample(fst, baseNoise[i + 1], o)]
    IN  IF Random(r2) < BubbleChance(sampleRate, o)
        THEN LET r3 == NextSeed(r2)
                 r4 == NextSeed(r3)
                 bubbleFreq == 800 * Scale + 1200 * Random(r3)
                 bubbleDuration == MulCoef(Scale, 500000)
                                   + MulCoef(Random(r4), 1000000)
                 bubbleSamples == (bubbleDuration * sampleRate) \div Scale
             IN  [buffer |-> RenderBubble(flow, i, 0, bubbleSamples, sampleRate,
                                          bubbleFreq, o),
                  reg |-> r4, i |-> i + 1, filterState |-> fst,
                  bubbles |-> Append(bubbles, <<i, bubbleSamples, bubbleFreq>>)]
        ELSE [buffer |-> flow, reg |-> r2, i |-> i + 1, filterState |-> fst,
              bubbles |-> bubbles]

\* The loop from the state s = [buffer, reg, i, filterState, bubbles] on.
RECURSIVE WaterLoop(_, _, _, _)
WaterLoop(s, baseNoise, sampleRate, o) ==
    IF s.i >= Len(s.buffer) THEN [buffer |-> s.buffer, bubbles |-> s.bubbles]
    ELSE WaterLoop(WaterIter(s.buffer, s.reg, s.i, s.filterState, s.bubbles,
                             baseNoise, sampleRate, o),
                   baseNoise, sampleRate, o)

WaterRun(baseNoise, sampleRate, o, entropy) ==
    WaterLoop([buffer |-> Zeros(Len(baseNoise)),
               reg |-> NewSeededRandom(o.seed, entropy), i |-> 0, filterState |-> 0,
               bubbles |-> <<>>],
              baseNoise, sampleRate, o)

generateWaterLayer(baseNoise, sampleRate, o, entropy) ==
    LayerResult("running_water", WaterRun(baseNoise, sampleRate, o, entropy).buffer,
                "Running water (intensity: ", o.intensity)

(***************************************************************************)
(* mixAmbientLayers.  A sample that is not a number is NaN: reading a      *)
(* Float32Array past its end gives undefined, and undefined * w is NaN.    *)
(***************************************************************************)
NaN == -(2^30)

\* Math.tanh(x) for x >= 0, tabulated at quarter steps up to 4 and
\* interpolated linearly; from 4 on the value rounds to 1 on the grid.
TanhTable ==
    <<0, 245, 462, 635, 762, 848, 905, 941, 964, 978, 987, 992, 995, 997, 998,
      999, 999>>

Tanh(x) ==
    LET step == Scale \div 4
        k    == x \div step
        f    == x % step
    IN  IF k >= Len(TanhTable) - 1 THEN Scale
        ELSE TanhTable[k + 1] + RoundDiv((TanhTable[k + 2] - TanhTable[k + 1]) * f, step)

\* buffer[i], i counted from 0
At(buffer, i) == IF i < Len(buffer) THEN buffer[i + 1] ELSE NaN

\* a * w and a + b for samples
SMul(a, w) == IF a = NaN THEN NaN ELSE Mul(a, w)

SAdd(a, b) == IF a = NaN \/ b = NaN THEN NaN ELSE a + b

\* 0.95
LimitThreshold == MulCoef(Scale, 9500000)

\* A limiter that forgets Math.abs: only positive samples are limited.
SoftLimitPositiveOnly(x) ==
    IF x = NaN THEN NaN
    ELSE IF x > LimitThreshold THEN Tanh(x)
    ELSE x

\* A limiter that engages at the threshold itself (>= in place of >).
SoftLimitInclusive(x) ==
    IF x = NaN THEN NaN
    ELSE IF Abs(x) >= LimitThreshold THEN (IF x > 0 THEN Tanh(x) ELSE -Tanh(-x))
    ELSE x

\* if (Math.abs(x) > 0.95) x = x > 0 ? Math.tanh(x) : -Math.tanh(-x)
SoftLimit(x) ==
    IF x = NaN THEN NaN
    ELSE IF Abs(x) > LimitThreshold THEN (IF x > 0 THEN Tanh(x) ELSE -Tanh(-x))
    ELSE x

\* A layer weight that is not divided by the number of layers.
LayerWeightUndivided(layerLevel, n) == layerLevel

\* layerLevel / layers.length
LayerWeight(layerLevel, n) == RoundDiv(layerLevel, n)

\* mixed after the layers from the k-th on have been added (layers.forEach)
RECURSIVE AddLayers(_, _, _, _)
AddLayers(mixed, layers, k, layerLevel) ==
    IF k > Len(layers) THEN mixed
    ELSE AddLayers([i \in 1..Len(mixed) |->
                       SAdd(mixed[i], SMul(At(layers[k], i - 1),
                                           LayerWeight(layerLevel, Len(layers))))],
                   layers, k + 1, layerLevel)

\* baseLevel = 0.7, layerLevel = 0.3
DefaultBaseLevel == MulCoef(Scale, 7000000)

DefaultLayerLevel == MulCoef(Scale, 3000000)

\* An optional argument, or its default when it is undefined.
OrDefault(arg, default) == IF arg = None THEN default ELSE arg[1]

\* layers are the layers' buffers; baseLevel and layerLevel are optional
mixAmbientLayers(baseNoise, layers, baseLevel, layerLevel) ==
    LET scaled == [i \in 1..Len(baseNoise) |->
                      SMul(baseNoise[i], OrDefault(baseLevel, DefaultBaseLevel))]
        summed == AddLayers(scaled, layers, 1, OrDefault(layerLevel, DefaultLayerLevel))
    IN  [i \in 1..Len(summed) |-> SoftLimit(summed[i])]

(***************************************************************************)
(* wavWriter: float32ToPCM, applyEnvelope, convertToStereo, writeWav.      *)
(***************************************************************************)
\* A conversion that scales both signs by 0x8000.
Int16OfSymmetric(x) ==
    IF x = NaN THEN 0
    ELSE TruncDiv(Clamp(x) * 32768, Scale)

\* sample < 0 ? sample * 0x8000 : sample * 0x7FFF, truncated by ToInt32
Int16Of(x) ==
    IF x = NaN THEN 0
    ELSE LET sample == Clamp(x)
         IN  TruncDiv(IF sample < 0 THEN sample * 32768 ELSE sample * 32767, Scale)

\* int16 & 0xFF, (int16 >> 8) & 0xFF
PcmBytes(x) == <<Int16Of(x) % 256, (Int16Of(x) \div 256) % 256>>

RECURSIVE Flatten(_)
Flatten(ss) == IF ss = <<>> THEN <<>> ELSE Head(ss) \o Flatten(Tail(ss))

float32ToPCM(buffer) == Flatten([i \in 1..Len(buffer) |-> PcmBytes(buffer[i])])

\* Math.floor(sec * sampleRate), sec the fraction sec[1]/sec[2]
FadeSamples(sec, sampleRate) == (sec[1] * sampleRate) \div sec[2]

\* An envelope that forces the last sample to silence whatever the fades.
EnvelopeGainEndsSilent(i, length, fadeInSamples, fadeOutSamples) ==
    IF i = length - 1 THEN <<0, 1>>
    ELSE IF i < fadeInSamples THEN <<i, fadeInSamples>>
    ELSE IF i >= length - fadeOutSamples THEN <<length - i, fadeOutSamples>>
    ELSE <<1, 1>>

\* An envelope whose fade-out reaches 0 at the last sample:
\* (length - 1 - i) / fadeOutSamples.
EnvelopeGainZeroAtLast(i, length, fadeInSamples, fadeOutSamples) ==
    LET fin  == IF i < fadeInSamples THEN <<i, fadeInSamples>> ELSE <<1, 1>>
        fout == IF i >= length - fadeOutSamples
                THEN <<length - 1 - i, fadeOutSamples>> ELSE <<1, 1>>
    IN  <<fin[1] * fout[1], fin[2] * fout[2]>>

\* An envelope that applies the fade-out progress to every index when there
\* is a fade-out, without the test i >= length - fadeOutSamples.
EnvelopeGainUnguarded(i, length, fadeInSamples, fadeOutSamples) ==
    LET fin  == IF i < fadeInSamples THEN <<i, fadeInSamples>> ELSE <<1, 1>>
        fout == IF fadeOutSamples > 0
                THEN <<length - i, fadeOutSamples>> ELSE <<1, 1>>
    IN  <<fin[1] * fout[1], fin[2] * fout[2]>>

\* gain at index i, as the fraction <<numerator, denominator>>
EnvelopeGain(i, length, fadeInSamples, fadeOutSamples) ==
    LET fin  == IF i < fadeInSamples THEN <<i, fadeInSamples>> ELSE <<1, 1>>
        fout == IF i >= length - fadeOutSamples
                THEN <<length - i, fadeOutSamples>> ELSE <<1, 1>>
    IN  <<fin[1] * fout[1], fin[2] * fout[2]>>

applyEnvelope(buffer, fadeInSec, fadeOutSec, sampleRate) ==
    [k \in 1..Len(buffer) |->
        LET gain == EnvelopeGain(k - 1, Len(buffer), FadeSamples(fadeInSec, sampleRate),
                                 FadeSamples(fadeOutSec, sampleRate))
        IN  IF buffer[k] = NaN THEN NaN ELSE RoundDiv(buffer[k] * gain[1], gain[2])]

\* 1 - (spread * 0.5), for the left and for the right channel
LeftGain(spread) == Scale - MulCoef(spread, 5000000)

RightGain(spread) == Scale - MulCoef(spread, 5000000)

\* A conversion that writes the left channel, then the right one, in place
\* of interleaving them.
convertToStereoPlanar(monoBuffer, spread) ==
    [k \in 1..(2 * Len(monoBuffer)) |->
        IF k <= Len(monoBuffer)
        THEN SMul(monoBuffer[k], LeftGain(OrDefault(spread, 0)))
        ELSE SMul(monoBuffer[k - Len(monoBuffer)], RightGain(OrDefault(spread, 0)))]

\* spread is optional: spread = 0
convertToStereo(monoBuffer, spread) ==
    [k \in 1..(2 * Len(monoBuffer)) |->
        IF k % 2 = 1
        THEN SMul(monoBuffer[(k + 1) \div 2], LeftGain(OrDefault(spread, 0)))
        ELSE SMul(monoBuffer[k \div 2], RightGain(OrDefault(spread, 0)))]

UInt16LE(v) == <<v % 256, (v \div 256) % 256>>

UInt32LE(v) == <<v % 256, (v \div 256) % 256, (v \div 65536) % 256, (v \div 16777216) % 256>>

\* The ASCII codes of "RIFF", "WAVE", "fmt " and "data".
TagRIFF == <<82, 73, 70, 70>>

TagWAVE == <<87, 65, 86, 69>>

TagFmt == <<102, 109, 116, 32>>

TagData == <<100, 97, 116, 97>>

\* A header whose RIFF chunk size counts the whole file.
WavHeaderWholeFileSize(pcmData, sampleRate, channels) ==
    LET totalLen   == Len(pcmData) + 44
        blockAlign == channels * 2
        byteRate   == sampleRate * blockAlign
    IN  TagRIFF \o UInt32LE(totalLen) \o TagWAVE \o TagFmt \o UInt32LE(16)
        \o UInt16LE(1) \o UInt16LE(channels) \o UInt32LE(sampleRate)
        \o UInt32LE(byteRate) \o UInt16LE(blockAlign) \o UInt16LE(16)
        \o TagData \o UInt32LE(Len(pcmData))

\* The 44 bytes of the header, given the PCM payload.
WavHeader(pcmData, sampleRate, channels) ==
    LET totalLen   == Len(pcmData) + 44
        blockAlign == channels * 2
        byteRate   == sampleRate * blockAlign
    IN  TagRIFF \o UInt32LE(totalLen - 8) \o TagWAVE \o TagFmt \o UInt32LE(16)
        \o UInt16LE(1) \o UInt16LE(channels) \o UInt32LE(sampleRate)
        \o UInt32LE(byteRate) \o UInt16LE(blockAlign) \o UInt16LE(16)
        \o TagData \o UInt32LE(Len(pcmData))

\* A file made of the header alone, the payload being left out.
WavBytesHeaderOnly(data, sampleRate, channels) ==
    WavHeader(float32ToPCM(data), sampleRate, OrDefault(channels, 1))

\* Buffer.concat([header, Buffer.from(pcmData)]); channels is optional:
\* channels = 1
WavBytes(data, sampleRate, channels) ==
    WavHeader(float32ToPCM(data), sampleRate, OrDefault(channels, 1))
        \o float32ToPCM(data)

(***************************************************************************)
(* Requests: the arguments a caller may pass.                              *)
(***************************************************************************)
\* Longest buffer handed to the mixer and to the encoder.
MaxLen == 2

\* Most layers in one mix.
MaxLayers == 2

\* Longest buffer handed to applyEnvelope.
MaxEnvLen == 6

\* Longest buffer handed to convertToStereo.
MaxMono == 3

SeqsUpTo(S, n) == UNION {[1..k -> S] : k \in 0..n}

NoiseTypes == {"white", "pink", "brown", "blue"}

\* Durations in seconds, as fractions.
Durations == {<<-1, 1>>, <<0, 1>>, <<1, 2>>, <<1, 1>>, <<3, 2>>}

SampleRates == {-4, 0, 3, 8}

Seeds == {None, Some(0), Some(1), Some(42)}

\* Math.floor(Math.random() * 0x7fffffff)
Entropy == {7, 1337}

NoiseRequests ==
    [op : {"generateNoise"}, type : NoiseTypes, duration : Durations,
     sampleRate : SampleRates, seed : Seeds]

LayerOps == {"generateRainLayer", "generateBirdLayer", "generateWaterLayer"}

BaseBuffers ==
    {<<>>, Zeros(4), <<500, -1000, 250, 0, -750, 1000, 100, -300>>}

LayerRates == {10, 20, 200}

Intensities == {0, Scale \div 2, Scale}

Variations == {0, MulCoef(Scale, 3000000), Scale}

LayerRequests ==
    [op : LayerOps, baseNoise : BaseBuffers, sampleRate : LayerRates,
     options : [intensity : Intensities, variation : Variations, seed : Seeds]]

\* Base samples: -1, 0, 0.95 and 1.  Layer samples: -1, 0.05 and 1.
BaseSamples == {-Scale, 0, LimitThreshold, Scale}

LayerSamples == {-Scale, Scale \div 20, Scale}

\* Layer buffers for a base of n samples: as long as the base, one short, or
\* one longer.
LayerBuffersFor(n) ==
    {[i \in 1..k |-> v] : v \in LayerSamples, k \in {n, Max(n - 1, 0)}}
        \cup {[i \in 1..(n + 1) |-> Scale]}

\* <<baseLevel, layerLevel>>: both omitted, 0.6 and 0.4, 1 and 1, and levels
\* that drive the sum far from [-1, 1].
Levels ==
    {<<None, None>>, <<Some(600), Some(400)>>, <<Some(Scale), Some(Scale)>>,
     <<Some(3 * Scale), Some(5 * Scale)>>, <<Some(-2 * Scale), Some(0)>>}

MixRequests ==
    UNION {[op : {"mixAmbientLayers"}, baseNoise : {b},
            layers : SeqsUpTo(LayerBuffersFor(Len(b)), MaxLayers),
            levels : Levels] : b \in SeqsUpTo(BaseSamples, MaxLen)}

PcmSamples == {-2 * Scale, -Scale, -1, 0, 1, Scale \div 2, Scale, 3 * (Scale \div 2), NaN}

PcmRequests == [op : {"float32ToPCM"}, buffer : SeqsUpTo(PcmSamples, MaxLen)]

EnvBuffers ==
    {[i \in 1..n |-> Scale] : n \in 0..MaxEnvLen}
        \cup {<<500, -1000, 250, NaN, -750, 1000>>}

\* Fade durations in seconds, as fractions.
Fades == {<<0, 1>>, <<1, 16>>, <<1, 4>>, <<1, 2>>, <<1, 1>>, <<3, 1>>}

EnvRates == {4, 8}

EnvelopeRequests ==
    [op : {"applyEnvelope"}, buffer : EnvBuffers, fadeInSec : Fades,
     fadeOutSec : Fades, sampleRate : EnvRates]

MonoSamples == {-Scale, Scale \div 4, NaN}

Spreads == {None, Some(0), Some(Scale \div 2), Some(Scale)}

StereoRequests ==
    [op : {"convertToStereo"}, monoBuffer : SeqsUpTo(MonoSamples, MaxMono),
     spread : Spreads]

WavSamples == {-Scale, Scale \div 2}

WavRates == {8000, 44100}

Paths == {"out.wav"}

WavRequests ==
    [op : {"writeWav"}, data : SeqsUpTo(WavSamples, MaxLen), sampleRate : WavRates,
     outPath : Paths, channels : {None, Some(1), Some(2)}]

\* Most draws made from one generator.
MaxDraws == 24

\* Seeds of a generator that is drawn from directly: small ones, the largest
\* register values, the first seed whose product exceeds 2^53 (8162280) and
\* the seed that (seed * 1103515245 + 12345) mod 2^31 maps to 2^31 - 1
\* (230538014).
RandomSeeds ==
    {None} \cup {Some(s) : s \in 0..15}
        \cup {Some(42), Some(8162280), Some(230538014), Some(RandMax - 1), Some(RandMax)}

RandomRequests == [op : {"random"}, seed : RandomSeeds, entropy : Entropy]

\* A file: whether it exists, its bytes, whether the path can be written, and
\* how many writes the program has made to it.
File(exists, bytes, writable) ==
    [exists |-> exists, bytes |-> bytes, writable |-> writable, writes |-> 0]

NoFiles == [p \in Paths |-> File(FALSE, <<>>, TRUE)]

FileSystems ==
    [Paths -> {File(FALSE, <<>>, TRUE), File(TRUE, <<1, 2, 3>>, TRUE),
               File(FALSE, <<>>, FALSE)}]

(***************************************************************************)
(* The buffers the caller holds, by reference: heap[r] is the content of   *)
(* the buffer with reference r.  A request's input buffers come first, in  *)
(* the order of the arguments; each buffer a call allocates and returns is *)
(* added after them.                                                       *)
(***************************************************************************)
InputBuffers(r) ==
    IF r.op \in LayerOps THEN <<r.baseNoise>>
    ELSE IF r.op = "mixAmbientLayers" THEN <<r.baseNoise>> \o r.layers
    ELSE IF r.op \in {"float32ToPCM", "applyEnvelope"} THEN <<r.buffer>>
    ELSE IF r.op = "convertToStereo" THEN <<r.monoBuffer>>
    ELSE IF r.op = "writeWav" THEN <<r.data>>
    ELSE <<>>

\* The reference of a result written into its first input buffer.
FirstInput(h) == 1

\* new Float32Array(n), new Uint8Array(n): a reference no buffer has yet
NewBuffer(h) == Len(h) + 1

\* The heap once the buffer with reference ref holds content.
Store(h, ref, content) ==
    IF ref > Len(h) THEN Append(h, content) ELSE [h EXCEPT ![ref] = content]

(***************************************************************************)
(* Layer calls in progress.  A call of a layer generator is a frame: where *)
(* it is (idle, running, done), its loop index, the buffer it allocated,   *)
(* its filter state and the value Math.random() gave its generator.  The   *)
(* registers are kept by cell; each call's generator is a local of the     *)
(* call, so its register has a cell of its own.                            *)
(***************************************************************************)
Layers == {"rain", "birds", "water"}

\* The one cell every call would use if the generator were a module-level
\* object.
SharedCell(l) == "rain"

\* const rng = new SeededRandom(options.seed): the cell of call l's register
RegisterCell(l) == l

IdleFrame == [pc |-> "idle", i |-> 0, buffer |-> <<>>, filterState |-> 0, entropy |-> 0]

NoRun == [frames |-> [l \in Layers |-> IdleFrame], regs |-> [l \in Layers |-> 0]]

\* The three generators called on the same base buffer and options.
InterleaveRequests ==
    [op : {"layers"}, baseNoise : BaseBuffers, sampleRate : {200},
     options : [intensity : {Scale}, variation : {Scale},
                seed : {None, Some(42)}]]

\* The call of layer l begins: the generator and the buffer are created
\* (the bird generator draws callDuration at once).
BeginLayer(l) ==
    /\ req.op = "layers"
    /\ run.frames[l].pc = "idle"
    /\ \E entropy \in Entropy :
          LET seeded == NewSeededRandom(req.options.seed, entropy)
          IN  run' = [frames |-> [run.frames EXCEPT ![l] =
                                     [pc |-> "running", i |-> 0,
                                      buffer |-> Zeros(Len(req.baseNoise)),
                                      filterState |-> 0, entropy |-> entropy]],
                      regs |-> [run.regs EXCEPT ![RegisterCell(l)] =
                                   IF l = "birds" THEN NextSeed(seeded) ELSE seeded]]
    /\ UNCHANGED <<req, res, fs, heap, cli>>

\* The locals of call l after one iteration of its loop, whose register is
\* reg when the iteration begins: buffer, reg, i and (water) filterState.
LayerIter(l, f, reg) ==
    IF l = "rain"
    THEN RainIter(f.buffer, reg, f.i, req.baseNoise, req.sampleRate, req.options)
    ELSE IF l = "birds"
    THEN BirdIter(f.buffer, reg, f.i, <<>>, req.baseNoise, req.sampleRate,
                  req.options)
    ELSE WaterIter(f.buffer, reg, f.i, f.filterState, <<>>, req.baseNoise,
                   req.sampleRate, req.options)

\* The calls in progress once call l holds the locals s.
RunAfter(l, s) ==
    [frames |-> [run.frames EXCEPT
                    ![l].buffer = s.buffer, ![l].i = s.i,
                    ![l].filterState = IF l = "water" THEN s.filterState ELSE @],
     regs |-> [run.regs EXCEPT ![RegisterCell(l)] = s.reg]]

\* One iteration of the loop of call l.
StepLayer(l) ==
    /\ req.op = "layers"
    /\ run.frames[l].pc = "running"
    /\ run.frames[l].i < Len(run.frames[l].buffer)
    /\ run' = RunAfter(l, LayerIter(l, run.frames[l], run.regs[RegisterCell(l)]))
    /\ UNCHANGED <<req, res, fs, heap, cli>>

\* The loop of call l has ended: the call returns its buffer.
EndLayer(l) ==
    /\ req.op = "layers"
    /\ run.frames[l].pc = "running"
    /\ run.frames[l].i >= Len(run.frames[l].buffer)
    /\ run' = [run EXCEPT !.frames[l].pc = "done"]
    /\ UNCHANGED <<req, res, fs, heap, cli>>

(***************************************************************************)
(* The command-line program: its locals when it is not running.            *)
(***************************************************************************)
NoCli ==
    [pc |-> "off", noiseBuffer |-> <<>>, ambientLayers |-> <<>>, layerTypes |-> <<>>,
     descriptions |-> 0, channels |-> 1]

(***************************************************************************)
(* Actions: one invocation of the requested function.                      *)
(***************************************************************************)
\* rng.random() on the generator new SeededRandom(req.seed): the outcome is
\* the register after the draw and the value returned.
CallRandom ==
    /\ req.op = "random"
    /\ Len(res) < MaxDraws
    /\ LET reg  == IF res = <<>> THEN NewSeededRandom(req.seed, req.entropy)
                   ELSE res[Len(res)].value.seed
           next == NextSeed(reg)
       IN  res' = Append(res, Ok([seed |-> next, random |-> Random(next)]))
    /\ UNCHANGED <<req, fs, heap, run, cli>>

CallGenerateNoise ==
    /\ req.op = "generateNoise"
    /\ Len(res) < MaxCalls
    /\ \E entropy \in Entropy :
          LET out == generateNoise(req.type, req.duration, req.sampleRate,
                                   req.seed, entropy)
          IN  /\ res' = Append(res, out)
              /\ heap' = IF out.status = "ok"
                          THEN Store(heap, NewBuffer(heap), out.value)
                          ELSE heap
    /\ UNCHANGED <<req, fs, run, cli>>

CallGenerateRainLayer ==
    /\ req.op = "generateRainLayer"
    /\ Len(res) < MaxCalls
    /\ \E entropy \in Entropy :
          LET layer == generateRainLayer(req.baseNoise, req.sampleRate, req.options, entropy)
          IN  /\ res' = Append(res, Ok(layer))
              /\ heap' = Store(heap, NewBuffer(heap), layer.buffer)
    /\ UNCHANGED <<req, fs, run, cli>>

CallGenerateBirdLayer ==
    /\ req.op = "generateBirdLayer"
    /\ Len(res) < MaxCalls
    /\ \E entropy \in Entropy :
          LET layer == generateBirdLayer(req.baseNoise, req.sampleRate, req.options, entropy)
          IN  /\ res' = Append(res, Ok(layer))
              /\ heap' = Store(heap, NewBuffer(heap), layer.buffer)
    /\ UNCHANGED <<req, fs, run, cli>>

CallGenerateWaterLayer ==
    /\ req.op = "generateWaterLayer"
    /\ Len(res) < MaxCalls
    /\ \E entropy \in Entropy :
          LET layer == generateWaterLayer(req.baseNoise, req.sampleRate, req.options, entropy)
          IN  /\ res' = Append(res, Ok(layer))
              /\ heap' = Store(heap, NewBuffer(heap), layer.buffer)
    /\ UNCHANGED <<req, fs, run, cli>>

CallMixAmbientLayers ==
    /\ req.op = "mixAmbientLayers"
    /\ Len(res) < MaxCalls
    /\ LET mixed == mixAmbientLayers(req.baseNoise, req.layers,
                                      req.levels[1], req.levels[2])
       IN  /\ res' = Append(res, Ok(mixed))
           /\ heap' = Store(heap, NewBuffer(heap), mixed)
    /\ UNCHANGED <<req, fs, run, cli>>

CallFloat32ToPCM ==
    /\ req.op = "float32ToPCM"
    /\ Len(res) < MaxCalls
    /\ res' = Append(res, Ok(float32ToPCM(req.buffer)))
    /\ heap' = Store(heap, NewBuffer(heap), float32ToPCM(req.buffer))
    /\ UNCHANGED <<req, fs, run, cli>>

CallApplyEnvelope ==
    /\ req.op = "applyEnvelope"
    /\ Len(res) < MaxCalls
    /\ LET result == applyEnvelope(req.buffer, req.fadeInSec, req.fadeOutSec,
                                    req.sampleRate)
       IN  /\ res' = Append(res, Ok(result))
           /\ heap' = Store(heap, NewBuffer(heap), result)
    /\ UNCHANGED <<req, fs, run, cli>>

CallConvertToStereo ==
    /\ req.op = "convertToStereo"
    /\ Len(res) < MaxCalls
    /\ res' = Append(res, Ok(convertToStereo(req.monoBuffer, req.spread)))
    /\ heap' = Store(heap, NewBuffer(heap), convertToStereo(req.monoBuffer, req.spread))
    /\ UNCHANGED <<req, fs, run, cli>>

\* writeFileSync(outPath, wav) creates or replaces the file, or throws.
CallWriteWav ==
    /\ req.op = "writeWav"
    /\ Len(res) < MaxCalls
    /\ IF fs[req.outPath].writable
       THEN /\ fs' = [fs EXCEPT ![req.outPath] =
                         [File(TRUE, WavBytes(req.data, req.sampleRate, req.channels),
                               TRUE)
                          EXCEPT !.writes = fs[req.outPath].writes + 1]]
            /\ res' = Append(res, Ok(<<>>))
       ELSE /\ res' = Append(res, Throw("EACCES: permission denied"))
            /\ UNCHANGED fs
    /\ UNCHANGED <<req, heap, run, cli>>

(***************************************************************************)
(* Specifications: the synthesis functions, the mixer, the wav writer.     *)
(***************************************************************************)
InitSynth ==
    /\ req \in NoiseRequests \cup LayerRequests
    /\ res = <<>>
    /\ fs = NoFiles
    /\ heap = InputBuffers(req)
    /\ run = NoRun
    /\ cli = NoCli

NextSynth ==
    \/ CallGenerateNoise
    \/ CallGenerateRainLayer
    \/ CallGenerateBirdLayer
    \/ CallGenerateWaterLayer

SpecSynth == InitSynth /\ [][NextSynth]_vars

InitMix ==
    /\ req \in MixRequests
    /\ res = <<>>
    /\ fs = NoFiles
    /\ heap = InputBuffers(req)
    /\ run = NoRun
    /\ cli = NoCli

NextMix == CallMixAmbientLayers

SpecMix == InitMix /\ [][NextMix]_vars

InitWav ==
    /\ req \in PcmRequests \cup EnvelopeRequests \cup StereoRequests \cup WavRequests
    /\ res = <<>>
    /\ fs \in IF req.op = "writeWav" THEN FileSystems ELSE {NoFiles}
    /\ heap = InputBuffers(req)
    /\ run = NoRun
    /\ cli = NoCli

NextWav ==
    \/ CallFloat32ToPCM
    \/ CallApplyEnvelope
    \/ CallConvertToStereo
    \/ CallWriteWav

SpecWav == InitWav /\ [][NextWav]_vars

InitRandom ==
    /\ req \in RandomRequests
    /\ res = <<>>
    /\ fs = NoFiles
    /\ heap = InputBuffers(req)
    /\ run = NoRun
    /\ cli = NoCli

NextRandom == CallRandom

SpecRandom == InitRandom /\ [][NextRandom]_vars

InitInterleave ==
    /\ req \in InterleaveRequests
    /\ res = <<>>
    /\ fs = NoFiles
    /\ heap = <<req.baseNoise>>
    /\ run = NoRun
    /\ cli = NoCli

NextInterleave ==
    \/ \E l \in Layers : BeginLayer(l)
    \/ \E l \in Layers : StepLayer(l)
    \/ \E l \in Layers : EndLayer(l)

SpecInterleave == InitInterleave /\ [][NextInterleave]_vars

InitLayers ==
    /\ req \in LayerRequests \cup MixRequests
    /\ res = <<>>
    /\ fs = NoFiles
    /\ heap = InputBuffers(req)
    /\ run = NoRun
    /\ cli = NoCli

NextLayers ==
    \/ CallGenerateRainLayer
    \/ CallGenerateBirdLayer
    \/ CallGenerateWaterLayer
    \/ CallMixAmbientLayers

SpecLayers == InitLayers /\ [][NextLayers]_vars

InitTransforms ==
    /\ req \in LayerRequests \cup MixRequests \cup PcmRequests
                 \cup EnvelopeRequests \cup StereoRequests
    /\ res = <<>>
    /\ fs = NoFiles
    /\ heap = InputBuffers(req)
    /\ run = NoRun
    /\ cli = NoCli

NextTransforms ==
    \/ CallGenerateRainLayer
    \/ CallGenerateBirdLayer
    \/ CallGenerateWaterLayer
    \/ CallMixAmbientLayers
    \/ CallFloat32ToPCM
    \/ CallApplyEnvelope
    \/ CallConvertToStereo

SpecTransforms == InitTransforms /\ [][NextTransforms]_vars

(***************************************************************************)
(* Properties of generateNoise and of the layer generators (SpecSynth).    *)
(***************************************************************************)
\* The request carries a seed.
Seeded ==
    IF req.op = "generateNoise" THEN req.seed # None ELSE req.options.seed # None

\* C1: with a seed, two invocations of generateNoise, or of one of the three
\* layer generators, on the same arguments give the same result, sample for
\* sample, whatever Math.random() would have returned.
C1_Deterministic ==
    Seeded => \A k, l \in 1..Len(res) : res[k] = res[l]

C1_Witness ==
    /\ req.op = "generateNoise"
    /\ req.type = "pink"
    /\ req.seed = Some(42)
    /\ Len(res) = 2
    /\ res[1].status = "ok"
    /\ Len(res[1].value) = 4
    /\ res[2] = res[1]

\* floor(duration * sampleRate) of a generateNoise request
FloorLength == (req.duration[1] * req.sampleRate) \div req.duration[2]

KnownType == req.type \in {"white", "pink", "brown"}

C6_AlwaysUnknownTypeError ==
    (req.op = "generateNoise" /\ ~KnownType) =>
        \A k \in 1..Len(res) :
            /\ res[k].status = "throw"
            /\ res[k].value = <<>>
            /\ res[k].error = "Unknown noise type: " \o req.type

(***************************************************************************)
(* Properties of SeededRandom (SpecRandom).                                *)
(***************************************************************************)
\* The register before the k-th draw.
RegisterBefore(k) ==
    IF k = 1 THEN (IF req.seed = None THEN req.entropy ELSE req.seed[1])
    ELSE res[k - 1].value.seed

\* C18, as stated: the register is updated on each draw as
\* (state * 1103515245 + 12345) mod 2^31, and every value returned lies in
\* [0, 1), for any seed and after any number of draws.
C18_ExactLcgInRange ==
    req.op = "random" =>
        \A k \in 1..Len(res) :
            /\ res[k].value.seed = NextSeedExact(RegisterBefore(k))
            /\ 0 <= res[k].value.random
            /\ res[k].value.random < Scale

\* C18, amended: the register is updated on each draw as the double
\* state * 1103515245 + 12345 (product and sum rounded to 53 bits) masked to
\* 31 bits, which is (state * 1103515245 + 12345) mod 2^31 only while the
\* product stays below 2^53, i.e. up to state 8162279; the register never
\* becomes 2^31 - 1, so every value returned, register / (2^31 - 1), lies in
\* [0, 1).
C18_Range ==
    req.op = "random" =>
        \A k \in 1..Len(res) :
            /\ res[k].value.seed \in 0..(RandMax - 1)
            /\ 0 <= res[k].value.random
            /\ res[k].value.random < Scale
            /\ RegisterBefore(k) <= 8162279 =>
                  res[k].value.seed = NextSeedExact(RegisterBefore(k))

\* the seed that the exact update would send to 2^31 - 1 (a draw of 1.0)
C18_Witness ==
    /\ req.op = "random"
    /\ req.seed = Some(230538014)
    /\ Len(res) >= 2
    /\ NextSeedExact(230538014) = RandMax
    /\ res[1].value.seed = 0
    /\ res[1].value.random = 0
    /\ res[2].value.seed = 12345

\* C14: called with a valid noise type and a duration <= 0 or a sample rate
\* <= 0, generateNoise raises no error and returns a zero-length buffer.
C14_NonPositiveGivesEmpty ==
    (/\ req.op = "generateNoise"
     /\ KnownType
     /\ (req.duration[1] <= 0 \/ req.sampleRate <= 0)) =>
        \A k \in 1..Len(res) :
            res[k].status = "ok" /\ Len(res[k].value) = 0

(***************************************************************************)
(* Properties of mixAmbientLayers (SpecMix).                               *)
(***************************************************************************)
\* Every layer has a sample at every index of the base.
LayersCoverBase ==
    \A k \in 1..Len(req.layers) : Len(req.layers[k]) >= Len(req.baseNoise)

\* The levels in effect: the arguments, or 0.7 and 0.3 when omitted.
BaseLevelInEffect ==
    IF req.levels[1] = None THEN (7 * Scale) \div 10 ELSE req.levels[1][1]

LayerLevelInEffect ==
    IF req.levels[2] = None THEN (3 * Scale) \div 10 ELSE req.levels[2][1]

\* C3: whatever the levels and the number of layers, every sample the mixer
\* emits is a number of magnitude at most 1.0, when the layers cover the base.
C3_Bounded ==
    LayersCoverBase =>
        \A k \in 1..Len(res) : \A i \in 1..Len(res[k].value) :
            /\ res[k].value[i] # NaN
            /\ -Scale <= res[k].value[i]
            /\ res[k].value[i] <= Scale

\* baseLevel 3 and layerLevel 5 with two layers: a sum of 8 before limiting
C3_Witness ==
    /\ LayersCoverBase
    /\ Len(req.layers) = 2
    /\ req.levels = <<Some(3 * Scale), Some(5 * Scale)>>
    /\ Len(res) >= 1
    /\ \E i \in 1..Len(req.baseNoise) :
          /\ req.baseNoise[i] = Scale
          /\ req.layers[1][i] = Scale
          /\ req.layers[2][i] = Scale
          /\ res[1].value[i] = Scale

\* sum over the layers from the k-th on of layer[i] * (layerLevel / n)
RECURSIVE WeightedLayerSum(_, _)
WeightedLayerSum(i, k) ==
    IF k > Len(req.layers) THEN 0
    ELSE Mul(req.layers[k][i], RoundDiv(LayerLevelInEffect, Len(req.layers)))
         + WeightedLayerSum(i, k + 1)

\* L(x) = x if |x| <= 0.95, else sign(x) * tanh(|x|)
Limited(x) ==
    IF Abs(x) <= (95 * Scale) \div 100 THEN x ELSE Sgn(x) * Tanh(Abs(x))

\* C7: output sample i of the mixer is L(base[i] * baseLevel + the sum over
\* the layers of layer[i] * (layerLevel / n)), n the number of layers, with
\* baseLevel 0.7 and layerLevel 0.3 when they are omitted.
C7_MixFormula ==
    LayersCoverBase =>
        \A k \in 1..Len(res) :
            /\ Len(res[k].value) = Len(req.baseNoise)
            /\ \A i \in 1..Len(req.baseNoise) :
                  res[k].value[i] =
                      Limited(Mul(req.baseNoise[i], BaseLevelInEffect)
                              + WeightedLayerSum(i, 1))

\* defaults, two layers: 0.7 + 0.15 + 0.15 = 1.0 is limited to tanh(1.0),
\* 0 + 0.15 + 0.15 = 0.3 passes unchanged
C7_Witness ==
    /\ req.baseNoise = <<Scale, 0>>
    /\ req.layers = <<(<<Scale, Scale>>), (<<Scale, Scale>>)>>
    /\ req.levels = <<None, None>>
    /\ Len(res) >= 1
    /\ res[1].value = <<762, 300>>

\* C8: with no layers the mixer returns exactly base[i] * baseLevel for every
\* i, whenever baseLevel * max|base| <= 0.95.
C8_EmptyLayers ==
    (/\ req.layers = <<>>
     /\ \A i \in 1..Len(req.baseNoise) :
           Abs(Mul(req.baseNoise[i], BaseLevelInEffect)) <= (95 * Scale) \div 100) =>
        \A k \in 1..Len(res) :
            res[k].value =
                [i \in 1..Len(req.baseNoise) |->
                    Mul(req.baseNoise[i], BaseLevelInEffect)]

\* a base that reaches the threshold itself, at level 1
C8_Witness ==
    /\ req.layers = <<>>
    /\ req.levels = <<Some(Scale), Some(Scale)>>
    /\ req.baseNoise = <<(95 * Scale) \div 100, 0>>
    /\ Len(res) >= 1
    /\ res[1].value = <<(95 * Scale) \div 100, 0>>

(***************************************************************************)
(* Properties of the wav writer (SpecWav).                                 *)
(***************************************************************************)
\* The unsigned little-endian number in the n bytes after offset off.
RECURSIVE LittleEndian(_, _, _)
LittleEndian(bytes, off, n) ==
    IF n = 0 THEN 0
    ELSE bytes[off + 1] + 256 * LittleEndian(bytes, off + 1, n - 1)

\* The file written by a successful writeWav.
Written == fs[req.outPath].bytes

ChannelsInEffect == IF req.channels = None THEN 1 ELSE req.channels[1]

\* C4: a buffer of N samples written with c channels at rate R gives a file
\* of 44 + 2N bytes with RIFF size 36 + 2N, fmt size 16, format tag 1,
\* c channels, rate R, byte rate R * c * 2, block align c * 2, 16 bits per
\* sample, data size 2N, and the PCM payload from byte 44 on.
C4_Header ==
    (req.op = "writeWav" /\ Len(res) >= 1 /\ res[1].status = "ok") =>
        /\ fs[req.outPath].exists
        /\ Len(Written) = 44 + 2 * Len(req.data)
        /\ LittleEndian(Written, 4, 4) = 36 + 2 * Len(req.data)
        /\ LittleEndian(Written, 16, 4) = 16
        /\ LittleEndian(Written, 20, 2) = 1
        /\ LittleEndian(Written, 22, 2) = ChannelsInEffect
        /\ LittleEndian(Written, 24, 4) = req.sampleRate
        /\ LittleEndian(Written, 28, 4) = req.sampleRate * ChannelsInEffect * 2
        /\ LittleEndian(Written, 32, 2) = ChannelsInEffect * 2
        /\ LittleEndian(Written, 34, 2) = 16
        /\ LittleEndian(Written, 40, 4) = 2 * Len(req.data)
        /\ SubSeq(Written, 45, Len(Written)) = float32ToPCM(req.data)

C4_Witness ==
    /\ req.op = "writeWav"
    /\ req.channels = Some(2)
    /\ req.sampleRate = 44100
    /\ Len(req.data) = 2
    /\ Len(res) >= 1
    /\ res[1].status = "ok"
    /\ Len(Written) = 48
    /\ LittleEndian(Written, 28, 4) = 176400

\* How many of the invocations made so far returned.
RECURSIVE Successes(_)
Successes(k) ==
    IF k = 0 THEN 0
    ELSE Successes(k - 1) + (IF res[k].status = "ok" THEN 1 ELSE 0)

\* C19: after a successful writeWav a file exists at outPath whose content
\* is exactly the 44-byte header immediately followed by the PCM payload,
\* and each call has made a single write of the whole content, creating the
\* file or replacing the one that was there.
C19_FileWritten ==
    (req.op = "writeWav" /\ Successes(Len(res)) >= 1) =>
        /\ fs[req.outPath].exists
        /\ Len(Written) = 44 + Len(float32ToPCM(req.data))
        /\ SubSeq(Written, 1, 44) =
               WavHeader(float32ToPCM(req.data), req.sampleRate, ChannelsInEffect)
        /\ SubSeq(Written, 45, Len(Written)) = float32ToPCM(req.data)
        /\ fs[req.outPath].writes = Successes(Len(res))

\* the second call replaces the file the first call created
C19_Witness ==
    /\ req.op = "writeWav"
    /\ Len(req.data) = 2
    /\ Len(res) = 2
    /\ res[1].status = "ok"
    /\ res[2].status = "ok"
    /\ fs[req.outPath].exists
    /\ fs[req.outPath].writes = 2
    /\ Len(Written) = 48
    /\ SubSeq(Written, 1, 4) = <<82, 73, 70, 70>>

\* The signed 16-bit number in the two bytes of sample i, i from 1.
DecodedInt16(bytes, i) ==
    LET u == LittleEndian(bytes, 2 * (i - 1), 2)
    IN  IF u >= 32768 THEN u - 65536 ELSE u

\* Scale times the value the encoder aims at: the sample clamped to [-1, 1],
\* times 32768 when negative and 32767 otherwise.
ScaledTarget(x) ==
    LET c == IF x < -Scale THEN -Scale ELSE IF x > Scale THEN Scale ELSE x
    IN  IF c < 0 THEN c * 32768 ELSE c * 32767

\* C5: float32ToPCM writes 2 bytes per sample, little-endian, in buffer
\* order; each pair decodes to an integer in [-32768, 32767] that is within
\* 1 LSB of the clamped sample scaled by 32768 (negative) or 32767
\* (non-negative), also for samples outside [-1, 1].
C5_Pcm ==
    req.op = "float32ToPCM" =>
        \A k \in 1..Len(res) :
            /\ Len(res[k].value) = 2 * Len(req.buffer)
            /\ \A i \in 1..Len(req.buffer) :
                  /\ res[k].value[2 * i - 1] \in 0..255
                  /\ res[k].value[2 * i] \in 0..255
                  /\ DecodedInt16(res[k].value, i) \in -32768..32767
                  /\ req.buffer[i] # NaN =>
                        Abs(DecodedInt16(res[k].value, i) * Scale
                            - ScaledTarget(req.buffer[i])) < Scale

\* -2.0 encodes as -32768 (00 80) and 1.5 as 32767 (FF 7F)
C5_Witness ==
    /\ req.op = "float32ToPCM"
    /\ req.buffer = <<-2 * Scale, 3 * (Scale \div 2)>>
    /\ Len(res) >= 1
    /\ res[1].value = <<0, 128, 255, 127>>

\* C9: with zero spread, convertToStereo of N samples gives 2N samples with
\* out[2i] = out[2i+1] = in[i] for every i.
C9_ZeroSpread ==
    (req.op = "convertToStereo" /\ req.spread \in {None, Some(0)}) =>
        \A k \in 1..Len(res) :
            /\ Len(res[k].value) = 2 * Len(req.monoBuffer)
            /\ \A i \in 1..Len(req.monoBuffer) :
                  /\ res[k].value[2 * i - 1] = req.monoBuffer[i]
                  /\ res[k].value[2 * i] = req.monoBuffer[i]

C9_Witness ==
    /\ req.op = "convertToStereo"
    /\ req.spread = Some(0)
    /\ req.monoBuffer = <<-Scale, Scale \div 4, -Scale>>
    /\ Len(res) >= 1
    /\ res[1].value = <<-Scale, -Scale, Scale \div 4, Scale \div 4, -Scale, -Scale>>

\* Both fades of the request last 0 samples.
NoFades ==
    /\ (req.fadeInSec[1] * req.sampleRate) \div req.fadeInSec[2] = 0
    /\ (req.fadeOutSec[1] * req.sampleRate) \div req.fadeOutSec[2] = 0

\* C10: applyEnvelope returns as many samples as it is given, and with
\* fade-in and fade-out lengths of 0 it returns the samples it is given.
C10_Envelope ==
    req.op = "applyEnvelope" =>
        \A k \in 1..Len(res) :
            /\ Len(res[k].value) = Len(req.buffer)
            /\ NoFades => res[k].value = req.buffer

C10_Witness ==
    /\ req.op = "applyEnvelope"
    /\ req.fadeInSec = <<0, 1>>
    /\ req.fadeOutSec = <<0, 1>>
    /\ Len(req.buffer) = 6
    /\ req.buffer[2] = -Scale
    /\ Len(res) >= 1
    /\ res[1].value = req.buffer

\* The fade lengths of an applyEnvelope request, in samples.
FadeInLength == (req.fadeInSec[1] * req.sampleRate) \div req.fadeInSec[2]

FadeOutLength == (req.fadeOutSec[1] * req.sampleRate) \div req.fadeOutSec[2]

\* The fade-in ramp at index i (from 0): i / fadeIn inside the first fadeIn
\* samples, 1 elsewhere; 0 at the first sample of the buffer.
RampIn(i) == IF i < FadeInLength THEN <<i, FadeInLength>> ELSE <<1, 1>>

\* The fade-out ramp at index i (from 0): (N - i) / fadeOut inside the last
\* fadeOut samples, 1 elsewhere; 1 at index N - fadeOut and 0 at index N, the
\* end of the buffer.
RampOut(i) ==
    IF i >= Len(req.buffer) - FadeOutLength
    THEN <<Len(req.buffer) - i, FadeOutLength>> ELSE <<1, 1>>

\* C11: applyEnvelope multiplies the first floor(fadeIn * rate) samples by a
\* gain that rises linearly from 0 at the first sample toward 1, the last
\* floor(fadeOut * rate) samples by a gain that falls linearly from 1 to 0,
\* the 0 being reached at the end of the buffer (one past the last sample);
\* a sample in neither region is unchanged and a sample in both is
\* multiplied by both gains.
C11_FadeRamps ==
    req.op = "applyEnvelope" =>
        \A k \in 1..Len(res) : \A i \in 1..Len(req.buffer) :
            /\ req.buffer[i] # NaN =>
                  res[k].value[i] =
                      RoundDiv(req.buffer[i] * RampIn(i - 1)[1] * RampOut(i - 1)[1],
                               RampIn(i - 1)[2] * RampOut(i - 1)[2])
            /\ (i - 1 >= FadeInLength /\ i - 1 < Len(req.buffer) - FadeOutLength) =>
                  res[k].value[i] = req.buffer[i]
            /\ (i = 1 /\ FadeInLength > 0 /\ req.buffer[i] # NaN) =>
                  res[k].value[i] = 0

\* 6 samples of 1.0, both fades 4 samples long: the regions overlap at the
\* indices 2 and 3
C11_Witness ==
    /\ req.op = "applyEnvelope"
    /\ req.buffer = [i \in 1..6 |-> Scale]
    /\ FadeInLength = 4
    /\ FadeOutLength = 4
    /\ Len(res) >= 1
    /\ res[1].value = <<0, 250, 500, 563, 500, 250>>

(***************************************************************************)
(* Properties of the layer generators and of the mixer (SpecLayers).       *)
(***************************************************************************)
\* C12: the rain, bird and water generators each return a buffer of exactly
\* the base's length, also when an event is triggered so near the end that
\* it does not fit, and mixAmbientLayers returns a buffer of exactly the
\* base's length for any list of layers, shorter or longer ones included.
C12_SameLength ==
    \A k \in 1..Len(res) :
        IF req.op = "mixAmbientLayers"
        THEN Len(res[k].value) = Len(req.baseNoise)
        ELSE Len(res[k].value.buffer) = Len(req.baseNoise)

\* a bird call that begins inside a base of 8 samples and is longer than
\* what is left of it
C12_Witness ==
    /\ req.op = "generateBirdLayer"
    /\ req.options.seed # None
    /\ Len(req.baseNoise) = 8
    /\ Len(res) >= 1
    /\ Len(res[1].value.buffer) = 8
    /\ \E c \in 1..Len(BirdRun(req.baseNoise, req.sampleRate, req.options, 0).starts) :
          LET call == BirdRun(req.baseNoise, req.sampleRate, req.options, 0).starts[c]
          IN  call[1] + call[2] > 8

\* a mix with a layer shorter and a layer longer than the base
C12_MixWitness ==
    /\ req.op = "mixAmbientLayers"
    /\ Len(req.baseNoise) = 2
    /\ Len(req.layers) = 2
    /\ Len(req.layers[1]) = 1
    /\ Len(req.layers[2]) = 3
    /\ Len(res) >= 1
    /\ Len(res[1].value) = 2

\* C13: the three layer generators never fail, and with intensity 0 each
\* returns a buffer of zeros, for every base buffer, variation and seed.
C13_SilentAtZero ==
    req.op \in LayerOps =>
        \A k \in 1..Len(res) :
            /\ res[k].status = "ok"
            /\ req.options.intensity = 0 =>
                  res[k].value.buffer = [i \in 1..Len(req.baseNoise) |-> 0]

\* the water flow is computed for every sample, also at intensity 0
C13_Witness ==
    /\ req.op = "generateWaterLayer"
    /\ req.options.intensity = 0
    /\ req.options.variation = Scale
    /\ Len(req.baseNoise) = 8
    /\ req.baseNoise[2] = -Scale
    /\ Len(res) >= 1
    /\ res[1].status = "ok"
    /\ res[1].value.buffer = <<0, 0, 0, 0, 0, 0, 0, 0>>

\* C15: a fade-in or fade-out longer than the buffer gives the same output
\* as a fade of exactly the buffer's length (the fades are clamped to the
\* buffer length).
C15_FadesClamped ==
    req.op = "applyEnvelope" =>
        \A k \in 1..Len(res) :
            res[k].value =
                applyEnvelope(req.buffer,
                              <<Min(FadeInLength, Len(req.buffer)), req.sampleRate>>,
                              <<Min(FadeOutLength, Len(req.buffer)), req.sampleRate>>,
                              req.sampleRate)

\* C16: the spread of convertToStereo has no effect: for every mono buffer
\* and every spread the result equals convertToStereo(mono, 0) sample for
\* sample, and both channels of every frame are equal.
C16_SpreadHasNoEffect ==
    req.op = "convertToStereo" =>
        \A k \in 1..Len(res) :
            /\ res[k].value = convertToStereo(req.monoBuffer, Some(0))
            /\ \A i \in 1..Len(req.monoBuffer) :
                  res[k].value[2 * i - 1] = res[k].value[2 * i]

(***************************************************************************)
(* Properties of all the transforms (SpecTransforms).                      *)
(***************************************************************************)
\* The buffer the k-th invocation returned.
Returned(k) ==
    IF req.op \in LayerOps THEN res[k].value.buffer ELSE res[k].value

\* C17: after any of generateRainLayer, generateBirdLayer,
\* generateWaterLayer, mixAmbientLayers, applyEnvelope, convertToStereo and
\* float32ToPCM returns, every input buffer holds the samples it held before
\* the call, and the result is a new buffer, distinct from every input and
\* from every earlier result.
C17_InputsUntouched ==
    /\ Len(heap) = Len(InputBuffers(req)) + Len(res)
    /\ \A r \in 1..Len(InputBuffers(req)) : heap[r] = InputBuffers(req)[r]
    /\ \A k \in 1..Len(res) : heap[Len(InputBuffers(req)) + k] = Returned(k)

\* an envelope that changes the samples, applied twice to the same buffer
C17_Witness ==
    /\ req.op = "applyEnvelope"
    /\ Len(req.buffer) = 6
    /\ FadeInLength = 4
    /\ Len(res) = 2
    /\ res[1].value # req.buffer
    /\ heap = <<req.buffer, res[1].value, res[2].value>>

(***************************************************************************)
(* Properties of interleaved layer calls (SpecInterleave).                 *)
(***************************************************************************)
\* The buffer call l returns when it runs alone, from beginning to end.
Sequential(l) ==
    IF l = "rain"
    THEN generateRainLayer(req.baseNoise, req.sampleRate, req.options,
                           run.frames[l].entropy).buffer
    ELSE IF l = "birds"
    THEN generateBirdLayer(req.baseNoise, req.sampleRate, req.options,
                           run.frames[l].entropy).buffer
    ELSE generateWaterLayer(req.baseNoise, req.sampleRate, req.options,
                            run.frames[l].entropy).buffer

\* C20: whatever the order in which the rain, bird and water calls begin
\* and however the iterations of their loops are interleaved, each call
\* returns the buffer it returns when the calls run one after another, and
\* the base buffer is left as it was.
C20_OrderIndependent ==
    req.op = "layers" =>
        /\ heap = <<req.baseNoise>>
        /\ \A l \in Layers :
              run.frames[l].pc = "done" => run.frames[l].buffer = Sequential(l)

\* the rain call has returned a buffer that is not silent while the bird and
\* the water call are both in the middle of their loops
C20_Witness ==
    /\ req.op = "layers"
    /\ req.options.seed = Some(42)
    /\ Len(req.baseNoise) = 8
    /\ run.frames["rain"].pc = "done"
    /\ run.frames["rain"].buffer = Sequential("rain")
    /\ \E i \in 1..8 : run.frames["rain"].buffer[i] # 0
    /\ run.frames["birds"].pc = "running"
    /\ run.frames["birds"].i > 0
    /\ run.frames["water"].pc = "running"
    /\ run.frames["water"].i = 4
    /\ run.frames["water"].filterState # 0

(***************************************************************************)
(* The brown recurrence on its own (SpecBrown): the loop of the brown      *)
(* branch fed with any innovation sequence.  res holds the state of the    *)
(* loop: the number of samples produced and lastOut, the latest of them.   *)
(***************************************************************************)
\* Longest brown run.
MaxBrownLen == 160

\* Values of white: the extremes, the middle and two in between.
Innovations == {-Scale, -(Scale \div 2), 0, Scale \div 2, Scale}

BrownRequests == [op : {"brown"}]

\* let lastOut = 0
BrownStart == Ok([i |-> 0, lastOut |-> 0])

\* One iteration of the brown loop with the innovation white.
BrownSample ==
    /\ req.op = "brown"
    /\ res[1].value.i < MaxBrownLen
    /\ \E white \in Innovations :
          res' = <<Ok([i |-> res[1].value.i + 1,
                       lastOut |-> BrownStep(res[1].value.lastOut, white)])>>
    /\ UNCHANGED <<req, fs, heap, run, cli>>

InitBrown ==
    /\ req \in BrownRequests
    /\ res = <<BrownStart>>
    /\ fs = NoFiles
    /\ heap = <<>>
    /\ run = NoRun
    /\ cli = NoCli

NextBrown == BrownSample

SpecBrown == InitBrown /\ [][NextBrown]_vars

\* C21: whatever the run length and whatever the innovations in [-1, 1],
\* every sample the brown recurrence produces from lastOut = 0 lies in
\* [-1, 1].
C21_BrownBounded ==
    req.op = "brown" =>
        /\ res[1].value.lastOut >= -Scale
        /\ res[1].value.lastOut <= Scale

\* a run of more than a hundred samples, driven by maximal innovations,
\* that has climbed to within an eighth of the upper limit
C21_Witness ==
    /\ req.op = "brown"
    /\ res[1].value.i > 100
    /\ res[1].value.lastOut >= Scale - Scale \div 8

(***************************************************************************)
(* Properties of the water layer's bubbles (SpecSynth).                    *)
(***************************************************************************)
\* The locals of a seeded generateWaterLayer call before its loop.
WaterStart ==
    [buffer |-> Zeros(Len(req.baseNoise)), reg |-> req.options.seed[1], i |-> 0,
     filterState |-> 0, bubbles |-> <<>>]

\* filterState after each iteration of the loop from the state s on.
RECURSIVE FilterStates(_)
RECURSIVE FilterStatesAfter(_)
FilterStatesAfter(t) == <<t.filterState>> \o FilterStates(t)

FilterStates(s) ==
    IF s.i >= Len(s.buffer) THEN <<>>
    ELSE FilterStatesAfter(WaterIter(s.buffer, s.reg, s.i, s.filterState, s.bubbles,
                                     req.baseNoise, req.sampleRate, req.options))

\* The continuous flow value at index k of a seeded call.
FlowAt(k) ==
    FlowSample(FilterStates(WaterStart)[k + 1], req.baseNoise[k + 1], req.options)

\* The bubbles a seeded call triggers: <<index, bubbleSamples, bubbleFreq>>.
BubblesTriggered == WaterLoop(WaterStart, req.baseNoise, req.sampleRate, req.options).bubbles

\* What the bursts of the bubbles covering index k amount to there.
RECURSIVE BurstSum(_, _)
BurstSum(bubbles, k) ==
    IF bubbles = <<>> THEN 0
    ELSE (IF Head(bubbles)[1] <= k /\ k < Head(bubbles)[1] + Head(bubbles)[2]
          THEN BubbleSample(k - Head(bubbles)[1], req.sampleRate, Head(bubbles)[3],
                            req.options)
          ELSE 0) + BurstSum(Tail(bubbles), k)

\* C22: in the buffer a seeded generateWaterLayer call returns, every index
\* holds the continuous flow value plus the burst of every bubble that
\* covers it: a bubble triggered at i is present at i .. i + bubbleSamples - 1.
C22_BubblesAdditive ==
    (req.op = "generateWaterLayer" /\ Seeded) =>
        \A n \in 1..Len(res) : \A k \in 0..(Len(req.baseNoise) - 1) :
            res[n].value.buffer[k + 1] = FlowAt(k) + BurstSum(BubblesTriggered, k)

(***************************************************************************)
(* Properties of the bird calls (SpecSynth).                               *)
(***************************************************************************)
\* The calls of the bird run that seeds its generator from req.options.seed,
\* or from entropy when there is none: <<start index, callSamples>>, in the
\* order in which they were rendered.
CallsRendered(entropy) ==
    BirdRun(req.baseNoise, req.sampleRate, req.options, entropy).starts

\* How many of the calls write index k.
RECURSIVE Writers(_, _)
Writers(calls, k) ==
    IF calls = <<>> THEN 0
    ELSE (IF Head(calls)[1] <= k /\ k < Head(calls)[1] + Head(calls)[2] THEN 1 ELSE 0)
         + Writers(Tail(calls), k)

\* C23: in every generateBirdLayer call, a call rendered from index i with
\* callSamples samples is followed by no call that starts before
\* i + callSamples, and every index of the buffer is written by at most one
\* call.
C23_CallsDisjoint ==
    req.op = "generateBirdLayer" =>
        \A n \in 1..Len(res) : \A entropy \in Entropy :
            res[n].value.buffer =
                generateBirdLayer(req.baseNoise, req.sampleRate, req.options,
                                  entropy).buffer
            => /\ \A a, b \in 1..Len(CallsRendered(entropy)) :
                     a < b => CallsRendered(entropy)[b][1]
                                 >= CallsRendered(entropy)[a][1]
                                      + CallsRendered(entropy)[a][2]
               /\ \A k \in 0..(Len(req.baseNoise) - 1) :
                     Writers(CallsRendered(entropy), k) <= 1

\* a bird layer has been generated in which two calls were rendered, the
\* first of them at least two samples long
C23_Witness ==
    /\ req.op = "generateBirdLayer"
    /\ Seeded
    /\ Len(res) >= 1
    /\ Len(CallsRendered(0)) >= 2
    /\ CallsRendered(0)[1][2] >= 2
    /\ \E k \in 1..Len(req.baseNoise) : res[1].value.buffer[k] # 0

(***************************************************************************)
(* Properties of the pink branch (SpecSynth).                              *)
(***************************************************************************)
\* The white sample of iteration i (from 1) of the call that seeds its
\* generator from req.seed, or from entropy when there is none.
WhiteAt(entropy, i) ==
    White(Draws(NewSeededRandom(req.seed, entropy), i)[i])

\* The pole state with feedback coefficient c and input gain g after
\* iteration i; it is 0 before the first.
RECURSIVE Pole(_, _, _, _)
Pole(c, g, entropy, i) ==
    IF i = 0 THEN 0
    ELSE MulCoef(Pole(c, g, entropy, i - 1), c) + MulCoef(WhiteAt(entropy, i), g)

\* b0 + b1 + b2 + b3 + b4 + b5 after iteration i
SixPoles(entropy, i) ==
    Pole(9988600, 555179, entropy, i) + Pole(9933200, 750759, entropy, i)
    + Pole(9690000, 1538520, entropy, i) + Pole(8665000, 3104856, entropy, i)
    + Pole(5500000, 5329522, entropy, i) + Pole(-7616000, -168980, entropy, i)

\* b6 in iteration i: 0.115926 times the white sample of the iteration
\* before, 0 in the first.
Delayed(entropy, i) ==
    IF i = 1 THEN 0 ELSE MulCoef(WhiteAt(entropy, i - 1), 1159260)

\* The buffer of a pink call whose sample i is 0.11 times the seven terms.
SevenTerms(entropy) ==
    [i \in 1..FloorLength |->
        MulCoef(SixPoles(entropy, i) + Delayed(entropy, i), 1100000)]

\* The buffer of a pink call whose sample i is 0.11 times the seven terms
\* and the direct term 0.5362 times the current white sample.
SevenTermsAndDirect(entropy) ==
    [i \in 1..FloorLength |->
        MulCoef(SixPoles(entropy, i) + Delayed(entropy, i)
                + MulCoef(WhiteAt(entropy, i), 5362000), 1100000)]

\* C24 as stated: every pink sample is 0.11 times the sum of the seven
\* terms b0 .. b6.
C24_SevenTermSum ==
    (req.op = "generateNoise" /\ req.type = "pink") =>
        \A k \in 1..Len(res) :
            res[k].status = "ok" =>
                \E entropy \in Entropy : res[k].value = SevenTerms(entropy)

\* C24, amended: every pink sample is 0.11 times the sum of the seven terms
\* b0 .. b6 and of an eighth, direct term 0.5362 times the current white
\* sample.
C24_PinkFormula ==
    (req.op = "generateNoise" /\ req.type = "pink") =>
        \A k \in 1..Len(res) :
            res[k].status = "ok" =>
                \E entropy \in Entropy : res[k].value = SevenTermsAndDirect(entropy)

\* a seeded pink call of twelve samples has returned, and the direct term of
\* its first sample is not zero
C24_Witness ==
    /\ req.op = "generateNoise"
    /\ req.type = "pink"
    /\ req.seed = Some(42)
    /\ Len(res) >= 1
    /\ res[1].status = "ok"
    /\ Len(res[1].value) = 12
    /\ MulCoef(WhiteAt(0, 1), 5362000) # 0
    /\ res[1].value = SevenTermsAndDirect(0)
    /\ res[1].value # SevenTerms(0)

(***************************************************************************)
(* The command-line program (SpecCli).  req holds the parsed options; res  *)
(* the calls of the library the program has completed, oldest first; cli   *)
(* the program counter and the locals noiseBuffer, ambientLayers and       *)
(* channels.  ambient is the list of layer types after split and trim,     *)
(* aiAmbient the number of descriptions (0 when the option is absent).     *)
(***************************************************************************)
CliRates == {-4, 10}

CliRequests ==
    [op : {"cli"}, noise : {"white", "brown", "blue"},
     duration : {<<0, 1>>, <<1, 2>>}, samplerate : CliRates,
     seed : {None, Some(42)}, stereo : BOOLEAN,
     fadeIn : {<<0, 1>>, <<1, 5>>}, fadeOut : {<<0, 1>>, <<1, 5>>},
     ambient : {<<>>, <<"water">>, <<"rain", "birds">>, <<"wind">>},
     aiAmbient : {0, 1, 2}, out : Paths]

\* layerOptions of the algorithmic layers: the defaults 0.5 and 0.3
CliLayerOptions ==
    [intensity |-> Scale \div 2, variation |-> MulCoef(Scale, 3000000),
     seed |-> req.seed]

\* A completed call: the stage, the layer it made (if any), the buffer it
\* was given, the layers it mixed (indices into ambientLayers) and the
\* buffer it returned.
Event(stage, origin, input, layers, output) ==
    Ok([stage |-> stage, origin |-> origin, input |-> input, layers |-> layers,
        output |-> output])

\* What a text-to-audio generation resolves to: the fallback synthesis gives
\* a buffer as long as the base, a provider's response is decoded to 10
\* seconds of samples.  The samples come from outside; one value stands for
\* them.
TextToAudioBuffers ==
    {[i \in 1..Len(cli.noiseBuffer) |-> Scale \div 10],
     [i \in 1..(10 * req.samplerate) |-> Scale \div 10]}

\* ambientLayers.slice(-n), as the indices it selects
SliceLast(length, n) == [k \in 1..Min(length, n) |-> Max(0, length - n) + k]

\* The buffers of the layers at the given indices.
BuffersAt(indices) == [k \in 1..Len(indices) |-> cli.ambientLayers[indices[k]].buffer]

\* if (!options.noise || !options.duration || !options.out), the noise type
\* check and the duration check: the program exits or goes on.
CliValidate ==
    /\ req.op = "cli"
    /\ cli.pc = "start"
    /\ cli' = [cli EXCEPT !.pc = IF /\ req.duration[1] # 0
                                    /\ req.noise \in {"white", "pink", "brown"}
                                    /\ req.duration[1] > 0
                                 THEN "noise" ELSE "exit"]
    /\ UNCHANGED <<req, res, fs, heap, run>>

\* The program once the call of generateNoise has returned out.
NoiseGenerated(out) ==
    IF out.status = "throw"
    THEN /\ cli' = [cli EXCEPT !.pc = "crashed"]
         /\ UNCHANGED res
    ELSE /\ cli' = [cli EXCEPT !.pc = "ambient", !.noiseBuffer = out.value,
                               !.layerTypes = req.ambient]
         /\ res' = Append(res, Event("generateNoise", "", <<>>, <<>>, out.value))

\* let noiseBuffer = generateNoise(options.noise, options.duration, sampleRate,
\* options.seed)
CliGenerateNoise ==
    /\ req.op = "cli"
    /\ cli.pc = "noise"
    /\ \E entropy \in Entropy :
          NoiseGenerated(generateNoise(req.noise, req.duration, req.samplerate,
                                       req.seed, entropy))
    /\ UNCHANGED <<req, fs, heap, run>>

\* The layer the switch generates for a known layer type.
AmbientLayer(layerType, entropy) ==
    IF layerType = "rain"
    THEN generateRainLayer(cli.noiseBuffer, req.samplerate, CliLayerOptions, entropy)
    ELSE IF layerType = "birds"
    THEN generateBirdLayer(cli.noiseBuffer, req.samplerate, CliLayerOptions, entropy)
    ELSE generateWaterLayer(cli.noiseBuffer, req.samplerate, CliLayerOptions, entropy)

\* ambientLayers.push(layer), for a layer of the given origin
LayerPushed(origin, buffer) ==
    /\ cli' = [cli EXCEPT !.ambientLayers =
                              Append(@, [origin |-> origin, buffer |-> buffer]),
                          !.layerTypes = IF @ = <<>> THEN @ ELSE Tail(@),
                          !.descriptions = IF origin = "text-to-audio" THEN @ - 1 ELSE @]
    /\ res' = Append(res, Event("layer", origin, cli.noiseBuffer, <<>>, buffer))

\* One iteration of for (const layerType of layerTypes): a known type adds
\* its layer, an unknown one is reported and skipped.
CliAmbientLayer ==
    /\ req.op = "cli"
    /\ cli.pc = "ambient"
    /\ cli.layerTypes # <<>>
    /\ IF Head(cli.layerTypes) \in {"rain", "birds", "water"}
       THEN \E entropy \in Entropy :
               LayerPushed(Head(cli.layerTypes),
                           AmbientLayer(Head(cli.layerTypes), entropy).buffer)
       ELSE /\ cli' = [cli EXCEPT !.layerTypes = Tail(@)]
            /\ UNCHANGED res
    /\ UNCHANGED <<req, fs, heap, run>>

\* noiseBuffer = mixAmbientLayers(noiseBuffer, <the layers at indices>, ...)
\* followed by the move to the program point pc
Mixed(stage, indices, mixed, pc) ==
    /\ cli' = [cli EXCEPT !.pc = pc, !.noiseBuffer = mixed,
                          !.descriptions = req.aiAmbient]
    /\ res' = Append(res, Event(stage, "", cli.noiseBuffer, indices, mixed))

\* if (ambientLayers.length > 0) noiseBuffer = mixAmbientLayers(noiseBuffer,
\* ambientLayers), after the last layer type
CliMixAmbient ==
    /\ req.op = "cli"
    /\ cli.pc = "ambient"
    /\ cli.layerTypes = <<>>
    /\ IF Len(cli.ambientLayers) > 0
       THEN Mixed("mixAmbient", SliceLast(Len(cli.ambientLayers), Len(cli.ambientLayers)),
                  mixAmbientLayers(cli.noiseBuffer,
                                   BuffersAt(SliceLast(Len(cli.ambientLayers),
                                                       Len(cli.ambientLayers))),
                                   None, None),
                  "text-to-audio")
       ELSE /\ cli' = [cli EXCEPT !.pc = "text-to-audio", !.descriptions = req.aiAmbient]
            /\ UNCHANGED res
    /\ UNCHANGED <<req, fs, heap, run>>

\* One iteration of for (const description of textDescriptions): the awaited
\* generation resolves and its layer is pushed, or it rejects and the
\* description is skipped.
CliTextToAudio ==
    /\ req.op = "cli"
    /\ cli.pc = "text-to-audio"
    /\ cli.descriptions > 0
    /\ \/ \E buffer \in TextToAudioBuffers : LayerPushed("text-to-audio", buffer)
       \/ /\ cli' = [cli EXCEPT !.descriptions = @ - 1]
          /\ UNCHANGED res
    /\ UNCHANGED <<req, fs, heap, run>>

\* if (ambientLayers.length > 0) noiseBuffer = mixAmbientLayers(noiseBuffer,
\* ambientLayers.slice(-textDescriptions.length), 0.6, 0.4), inside
\* if (options.aiAmbient)
CliMixTextToAudio ==
    /\ req.op = "cli"
    /\ cli.pc = "text-to-audio"
    /\ cli.descriptions = 0
    /\ IF req.aiAmbient > 0 /\ Len(cli.ambientLayers) > 0
       THEN Mixed("mixTextToAudio", SliceLast(Len(cli.ambientLayers), req.aiAmbient),
                  mixAmbientLayers(cli.noiseBuffer,
                                   BuffersAt(SliceLast(Len(cli.ambientLayers),
                                                       req.aiAmbient)),
                                   Some(MulCoef(Scale, 6000000)),
                                   Some(MulCoef(Scale, 4000000))),
                  "envelope")
       ELSE /\ cli' = [cli EXCEPT !.pc = "envelope"]
            /\ UNCHANGED res
    /\ UNCHANGED <<req, fs, heap, run>>

\* A transform whose result is discarded: the call is made but noiseBuffer
\* keeps the buffer it had.
TransformedDiscarded(stage, output, pc, channels) ==
    /\ cli' = [cli EXCEPT !.pc = pc, !.channels = channels]
    /\ res' = Append(res, Event(stage, "", cli.noiseBuffer, <<>>, output))

\* noiseBuffer = <output> of a transform, followed by the move to pc
Transformed(stage, output, pc, channels) ==
    /\ cli' = [cli EXCEPT !.pc = pc, !.noiseBuffer = output, !.channels = channels]
    /\ res' = Append(res, Event(stage, "", cli.noiseBuffer, <<>>, output))

\* if (options.fadeIn > 0 || options.fadeOut > 0) noiseBuffer =
\* applyEnvelope(noiseBuffer, options.fadeIn, options.fadeOut, sampleRate)
CliApplyEnvelope ==
    /\ req.op = "cli"
    /\ cli.pc = "envelope"
    /\ IF req.fadeIn[1] > 0 \/ req.fadeOut[1] > 0
       THEN Transformed("applyEnvelope",
                        applyEnvelope(cli.noiseBuffer, req.fadeIn, req.fadeOut,
                                      req.samplerate),
                        "stereo", cli.channels)
       ELSE /\ cli' = [cli EXCEPT !.pc = "stereo"]
            /\ UNCHANGED res
    /\ UNCHANGED <<req, fs, heap, run>>

\* if (options.stereo) { noiseBuffer = convertToStereo(noiseBuffer);
\* channels = 2 }
CliConvertToStereo ==
    /\ req.op = "cli"
    /\ cli.pc = "stereo"
    /\ IF req.stereo
       THEN Transformed("convertToStereo", convertToStereo(cli.noiseBuffer, None),
                        "write", 2)
       ELSE /\ cli' = [cli EXCEPT !.pc = "write"]
            /\ UNCHANGED res
    /\ UNCHANGED <<req, fs, heap, run>>

\* writeWav({data: noiseBuffer, sampleRate, outPath: options.out, channels})
CliWriteWav ==
    /\ req.op = "cli"
    /\ cli.pc = "write"
    /\ IF fs[req.out].writable
       THEN /\ fs' = [fs EXCEPT ![req.out] =
                         [File(TRUE, WavBytes(cli.noiseBuffer, req.samplerate,
                                              Some(cli.channels)), TRUE)
                          EXCEPT !.writes = fs[req.out].writes + 1]]
            /\ cli' = [cli EXCEPT !.pc = "done"]
            /\ res' = Append(res, Event("writeWav", "", cli.noiseBuffer, <<>>, <<>>))
       ELSE /\ cli' = [cli EXCEPT !.pc = "crashed"]
            /\ UNCHANGED <<res, fs>>
    /\ UNCHANGED <<req, heap, run>>

InitCli ==
    /\ req \in CliRequests
    /\ res = <<>>
    /\ fs \in FileSystems
    /\ heap = <<>>
    /\ run = NoRun
    /\ cli = [NoCli EXCEPT !.pc = "start"]

NextCli ==
    \/ CliValidate
    \/ CliGenerateNoise
    \/ CliAmbientLayer
    \/ CliMixAmbient
    \/ CliTextToAudio
    \/ CliMixTextToAudio
    \/ CliApplyEnvelope
    \/ CliConvertToStereo
    \/ CliWriteWav

SpecCli == InitCli /\ [][NextCli]_vars

(***************************************************************************)
(* Properties of the command-line program (SpecCli).                       *)
(***************************************************************************)
\* The six stages in the order noise synthesis, layer synthesis, mixing,
\* envelope, stereo expansion, encoding.
SixStageRank(e) ==
    IF e.stage = "generateNoise" THEN 1
    ELSE IF e.stage = "layer" THEN 2
    ELSE IF e.stage \in {"mixAmbient", "mixTextToAudio"} THEN 3
    ELSE IF e.stage = "applyEnvelope" THEN 4
    ELSE IF e.stage = "convertToStereo" THEN 5
    ELSE 6

\* The stages with the text-to-audio round kept apart: noise synthesis,
\* algorithmic layer synthesis, first mix, text-to-audio layer synthesis,
\* second mix, envelope, stereo expansion, encoding.
EightStageRank(e) ==
    IF e.stage = "generateNoise" THEN 1
    ELSE IF e.stage = "layer" /\ e.origin # "text-to-audio" THEN 2
    ELSE IF e.stage = "mixAmbient" THEN 3
    ELSE IF e.stage = "layer" THEN 4
    ELSE IF e.stage = "mixTextToAudio" THEN 5
    ELSE IF e.stage = "applyEnvelope" THEN 6
    ELSE IF e.stage = "convertToStereo" THEN 7
    ELSE 8

\* The buffer the latest of the calls 1 .. k left in noiseBuffer (a layer is
\* pushed to ambientLayers and leaves noiseBuffer alone).
RECURSIVE CurrentAfter(_)
CurrentAfter(k) ==
    IF k = 0 THEN <<>>
    ELSE IF res[k].value.stage = "layer" THEN CurrentAfter(k - 1)
    ELSE res[k].value.output

\* Every call is given the buffer the calls before it produced.
EachConsumesPrevious ==
    \A k \in 1..Len(res) :
        IF res[k].value.stage = "generateNoise" THEN k = 1
        ELSE res[k].value.input = CurrentAfter(k - 1)

\* The envelope is given a mono buffer, and the file is written once, last,
\* from the final buffer, exactly when the program completes.
EnvelopeMonoAndOneWrite ==
    /\ \A k \in 1..Len(res) :
          /\ res[k].value.stage = "applyEnvelope" =>
                /\ Len(res[k].value.input) = Len(res[1].value.output)
                /\ \A j \in 1..k : res[j].value.stage # "convertToStereo"
          /\ res[k].value.stage = "writeWav" => k = Len(res) /\ cli.pc = "done"
    /\ fs[req.out].writes = IF cli.pc = "done" THEN 1 ELSE 0
    /\ cli.pc = "done" =>
          /\ res[Len(res)].value.stage = "writeWav"
          /\ fs[req.out].bytes = WavBytes(CurrentAfter(Len(res) - 1), req.samplerate,
                                          Some(IF req.stereo THEN 2 ELSE 1))

\* C25 as stated: the calls of a render follow the six stages in order (no
\* layer synthesis after a mix), each consuming the output of the one
\* before, the envelope on the mono buffer, and one write at the end.
C25_SixStagesInOrder ==
    req.op = "cli" =>
        /\ \A a, b \in 1..Len(res) :
              a < b => SixStageRank(res[a].value) <= SixStageRank(res[b].value)
        /\ EachConsumesPrevious
        /\ EnvelopeMonoAndOneWrite

\* C25, amended: the calls of a render follow the order noise synthesis,
\* algorithmic layer synthesis, first mix, text-to-audio layer synthesis
\* (from the buffer as mixed so far), second mix, envelope, stereo
\* expansion, encoding; only layer synthesis repeats; each call consumes
\* the buffer left by the calls before it; the envelope is applied to the
\* mono buffer before it is interleaved; the file is written once, last.
C25_PipelineOrder ==
    req.op = "cli" =>
        /\ \A a, b \in 1..Len(res) :
              a < b =>
                 /\ EightStageRank(res[a].value) <= EightStageRank(res[b].value)
                 /\ EightStageRank(res[a].value) = EightStageRank(res[b].value)
                       => res[a].value.stage = "layer"
        /\ EachConsumesPrevious
        /\ EnvelopeMonoAndOneWrite

\* a render with an algorithmic layer, a text-to-audio layer, both mixes,
\* the envelope and the stereo expansion has completed and written its file
C25_Witness ==
    /\ req.op = "cli"
    /\ cli.pc = "done"
    /\ req.ambient = <<"water">>
    /\ req.stereo
    /\ Len(res) = 8
    /\ res[2].value.stage = "layer"
    /\ res[3].value.stage = "mixAmbient"
    /\ res[4].value.origin = "text-to-audio"
    /\ res[5].value.stage = "mixTextToAudio"
    /\ res[6].value.stage = "applyEnvelope"
    /\ res[6].value.output # res[6].value.input
    /\ res[7].value.stage = "convertToStereo"
    /\ fs[req.out].writes = 1

\* How many of the mixes 1 .. k took the layer at index n of ambientLayers.
RECURSIVE TimesMixed(_, _)
TimesMixed(n, k) ==
    IF k = 0 THEN 0
    ELSE (IF \E j \in 1..Len(res[k].value.layers) : res[k].value.layers[j] = n
          THEN 1 ELSE 0) + TimesMixed(n, k - 1)

\* C26: in a render every generated layer is mixed at most once, and the
\* second mix takes text-to-audio layers only, also when text-to-audio
\* generations failed and were skipped.
C26_MixedAtMostOnce ==
    req.op = "cli" =>
        /\ \A n \in 1..Len(cli.ambientLayers) : TimesMixed(n, Len(res)) <= 1
        /\ \A k \in 1..Len(res) :
              res[k].value.stage = "mixTextToAudio" =>
                 \A j \in 1..Len(res[k].value.layers) :
                    cli.ambientLayers[res[k].value.layers[j]].origin = "text-to-audio"

(***************************************************************************)
(* Properties of the mixer with layers of any length (SpecMix).            *)
(***************************************************************************)
\* C27: when every sample of the base and of the layers is a number,
\* mixAmbientLayers returns a number at every index of the base, also when a
\* layer's buffer is shorter than the base.
C27_FiniteMix ==
    (/\ req.op = "mixAmbientLayers"
     /\ \A i \in 1..Len(req.baseNoise) : req.baseNoise[i] # NaN
     /\ \A k \in 1..Len(req.layers) : \A i \in 1..Len(req.layers[k]) :
           req.layers[k][i] # NaN)
    => \A n \in 1..Len(res) :
          /\ Len(res[n].value) = Len(req.baseNoise)
          /\ \A i \in 1..Len(res[n].value) : res[n].value[i] # NaN

(***************************************************************************)
(* The bound of the water layer (SpecSynth).                               *)
(***************************************************************************)
\* 0.32 * intensity
WaterBound == MulCoef(req.options.intensity, 3200000)

GainAt(i) ==
    EnvelopeGain(i, Len(req.buffer), FadeInLength, FadeOutLength)

\* C29: for every buffer length and all fade durations >= 0, fades longer
\* than the buffer and overlapping fades included, the gain of every sample
\* lies in [0, 1] and no output sample is larger in magnitude than the input
\* sample.
C29_NeverAmplifies ==
    req.op = "applyEnvelope" =>
        \A k \in 1..Len(res) : \A i \in 1..Len(req.buffer) :
            /\ GainAt(i - 1)[2] > 0
            /\ 0 <= GainAt(i - 1)[1]
            /\ GainAt(i - 1)[1] <= GainAt(i - 1)[2]
            /\ req.buffer[i] # NaN =>
                  /\ res[k].value[i] # NaN
                  /\ Abs(res[k].value[i]) <= Abs(req.buffer[i])

\* an envelope has been applied whose fade-in is longer than the buffer and
\* overlaps a fade-out: some sample is attenuated by both
C29_Witness ==
    /\ req.op = "applyEnvelope"
    /\ Len(req.buffer) = 6
    /\ req.buffer[6] = Scale
    /\ FadeInLength > Len(req.buffer)
    /\ FadeOutLength >= 2
    /\ FadeOutLength < Len(req.buffer)
    /\ Len(res) >= 1
    /\ res[1].value[6] > 0
    /\ res[1].value[6] < RoundDiv(Scale * 5, FadeInLength)

(***************************************************************************)
(* Prefix consistency of generateNoise (SpecSynth).                        *)
(***************************************************************************)
\* d is a duration of at least zero seconds and no longer than e
NoLonger(d, e) == d[1] >= 0 /\ d[1] * e[2] <= e[1] * d[2]

\* generateNoise called again with the request's type, rate and seed, for
\* the duration d
SameCallFor(d) ==
    generateNoise(req.type, d, req.sampleRate, req.seed, 0)

\* C30: for the same noise type, sample rate and seed, the output for a
\* shorter duration is a prefix of the output for a longer one; a white
\* sample i is the value of draw i + 1 alone, one draw being taken per sample.
C30_PrefixConsistent ==
    (req.op = "generateNoise" /\ req.seed # None) =>
        \A k \in 1..Len(res) :
            res[k].status = "ok" =>
                /\ \A d \in Durations :
                      (NoLonger(d, req.duration) /\ SameCallFor(d).status = "ok") =>
                          /\ Len(SameCallFor(d).value) <= Len(res[k].value)
                          /\ SameCallFor(d).value =
                                SubSeq(res[k].value, 1, Len(SameCallFor(d).value))
                /\ req.type = "white" =>
                      \A i \in 1..Len(res[k].value) :
                          res[k].value[i] = White(Draws(req.seed[1], i)[i])

\* a seeded call has returned twelve samples, of which the calls for the
\* shorter durations return the first four and the first eight
C30_Witness ==
    /\ req.op = "generateNoise"
    /\ req.seed = Some(42)
    /\ req.type = "brown"
    /\ Len(res) >= 1
    /\ res[1].status = "ok"
    /\ Len(res[1].value) = 12
    /\ Len(SameCallFor(<<1, 2>>).value) = 4
    /\ Len(SameCallFor(<<1, 1>>).value) = 8
    /\ res[1].value[4] # res[1].value[12]

====
